---- MODULE Spec2Model ----
(***************************************************************************)
(* Model of the price reconciliation pipeline of traitement_principal.py:  *)
(* process_products (the orchestrator), _worker_task (the pool task and    *)
(* its URL resolver), persistent_lpv_worker (the automation worker behind  *)
(* two queues), process_single_result (the result correlator) and the      *)
(* three cache operations on the local DataFrames.                         *)
(*                                                                         *)
(* Text (product names, domains) is a sequence of one-character strings,   *)
(* so that strip() and lower() are computed and not assumed.  A DataFrame  *)
(* is a record [cols, rows]: the set of its column names and the sequence  *)
(* of its rows.  None is the string "None".                                *)
(***************************************************************************)
EXTENDS Integers, Sequences, FiniteSets, TLC

None == "None"
\* NaN in an IndexUnique column (a row that was never indexed).
NaNIndex == <<>>
\* A price is <<>> (None / NaN) or <<cents>>.
NoPrice == <<>>

\* ------------------------------------------------------------------ bounds
\* Largest workload of a call: catalog rows times selected competitors.
MaxPairs == 3
\* Number of successive calls of process_products that are followed, and
\* the largest workload of each, in the specification of successive calls.
MaxRuns == 2
MaxPairsRuns == 2

\* --------------------------------------------------------------- constants
LPV == <<"l">>
TAK == <<"t">>
REQUIRED_COLUMNS_VERIFICATION == {"MonNomProduit", "Concurrent", "URLConcurrent"}
REQUIRED_COLUMNS_PRODUCTS_URL == {"NomProduit", "CompetitorDomain", "URLConcurrent"}

\* ------------------------------------------------------------------- text
LowerChar(c) ==
    CASE c = "W" -> "w"
      [] c = "G" -> "g"
      [] c = "L" -> "l"
      [] c = "T" -> "t"
      [] OTHER -> c

Lower(s) == [i \in 1..Len(s) |-> LowerChar(s[i])]

RECURSIVE LStrip(_)
LStrip(s) == IF s # <<>> /\ Head(s) = " " THEN LStrip(Tail(s)) ELSE s

RECURSIVE RStrip(_)
RStrip(s) ==
    IF s # <<>> /\ s[Len(s)] = " " THEN RStrip(SubSeq(s, 1, Len(s) - 1)) ELSE s

Strip(s) == RStrip(LStrip(s))

\* f"{norm_prod_name}__{norm_domain}"
IndexUnique(product_name, domain) ==
    Lower(Strip(product_name)) \o <<"_", "_">> \o Lower(Strip(domain))

\* Python truthiness of a URL value: None and '' are falsy.
Truthy(x) == x # None /\ x # ""

\* str(url or '')
StrOrEmpty(url) == IF Truthy(url) THEN url ELSE ""

\* A URL that is a non-blank string.
ValidUrl(u) == Truthy(u) /\ u # " "

\* ------------------------------------------------------------- DataFrames
EmptyDF(columns) == [cols |-> columns, rows |-> <<>>]

MaskMatchesNothing(df, product_name, domain) == {}

\* Indices of the rows the boolean mask on (product, domain) selects.
MaskVerification(df, product_name, domain) ==
    {i \in 1..Len(df.rows) : /\ df.rows[i].MonNomProduit = product_name
                             /\ df.rows[i].Concurrent = domain}

MaskProductsUrl(df, product_name, domain) ==
    {i \in 1..Len(df.rows) : /\ df.rows[i].NomProduit = product_name
                             /\ df.rows[i].CompetitorDomain = domain}

FirstOf(S) == CHOOSE i \in S : \A j \in S : i <= j

RECURSIVE KeepRows(_, _, _)
KeepRows(rows, drop, i) ==
    IF i > Len(rows) THEN <<>>
    ELSE (IF i \in drop THEN <<>> ELSE <<rows[i]>>) \o KeepRows(rows, drop, i + 1)

\* Each cache operation takes the caller's DataFrame object and yields
\*   ret   : the value returned,
\*   arg   : the caller's object after the call (in-place effects only),
\*   local : the object the function's own parameter name is bound to when it
\*           returns (a rebinding such as df = pd.concat(...) changes only
\*           this one and is dropped on return).

VRow(product_name, domain, url, idx) ==
    [MonNomProduit |-> product_name, Concurrent |-> domain,
     URLConcurrent |-> url, IndexUnique |-> idx]

URow(product_name, domain, url, idx) ==
    [NomProduit |-> product_name, CompetitorDomain |-> domain,
     URLConcurrent |-> url, IndexUnique |-> idx]

\* DataFrame.empty: no rows or no columns.
IsEmpty(df) == df.rows = <<>> \/ df.cols = {}

Concat(df, row) == [df EXCEPT !.rows = Append(df.rows, row)]

add_to_manual_verification(product_name, domain, verification_df, url) ==
    LET haveCols == {"MonNomProduit", "Concurrent"} \subseteq verification_df.cols
        \* columns are (re)created in place on an empty DataFrame
        df1 == IF haveCols THEN verification_df
               ELSE [verification_df EXCEPT
                        !.cols = verification_df.cols \cup REQUIRED_COLUMNS_VERIFICATION]
        mask == MaskVerification(df1, product_name, domain)
    IN  IF ~haveCols /\ ~IsEmpty(verification_df)
        THEN [ret |-> FALSE, arg |-> verification_df, local |-> verification_df]
        ELSE IF mask = {}
        THEN [ret |-> TRUE, arg |-> df1,
              local |-> Concat(df1, VRow(product_name, domain, StrOrEmpty(url), NaNIndex))]
        ELSE [ret |-> FALSE, arg |-> df1, local |-> df1]

remove_from_manual_verification(product_name, domain, verification_df) ==
    LET mask == MaskVerification(verification_df, product_name, domain)
        kept == [verification_df EXCEPT
                    !.rows = KeepRows(verification_df.rows, mask, 1)]
    IN  IF IsEmpty(verification_df)
        THEN [ret |-> FALSE, arg |-> verification_df, local |-> verification_df]
        ELSE IF ~({"MonNomProduit", "Concurrent"} \subseteq verification_df.cols)
        THEN [ret |-> FALSE, arg |-> verification_df, local |-> verification_df]
        ELSE IF mask # {}
        THEN [ret |-> Len(kept.rows) < Len(verification_df.rows),
              arg |-> verification_df, local |-> kept]
        ELSE [ret |-> FALSE, arg |-> verification_df, local |-> verification_df]

save_or_update_url(product_name, domain, url, products_url_df) ==
    LET haveCols == REQUIRED_COLUMNS_PRODUCTS_URL \subseteq products_url_df.cols
        df1 == IF haveCols THEN products_url_df
               ELSE [products_url_df EXCEPT
                        !.cols = products_url_df.cols \cup REQUIRED_COLUMNS_PRODUCTS_URL]
        url_str == StrOrEmpty(url)
        mask == MaskProductsUrl(df1, product_name, domain)
        current_url == df1.rows[FirstOf(mask)].URLConcurrent
        \* products_url_df.loc[mask, "URLConcurrent"] = url_str  (in place)
        updated == [df1 EXCEPT !.rows =
                      [i \in 1..Len(df1.rows) |->
                          IF i \in mask
                          THEN [df1.rows[i] EXCEPT !.URLConcurrent = url_str]
                          ELSE df1.rows[i]]]
    IN  IF ~haveCols /\ ~IsEmpty(products_url_df)
        THEN [ret |-> FALSE, arg |-> products_url_df, local |-> products_url_df]
        ELSE IF mask # {}
        THEN IF current_url # url_str
             THEN [ret |-> TRUE, arg |-> updated, local |-> updated]
             ELSE [ret |-> FALSE, arg |-> df1, local |-> df1]
        ELSE [ret |-> TRUE, arg |-> df1,
              local |-> Concat(df1, URow(product_name, domain, url_str, NaNIndex))]

\* ------------------------------------------------------ price difference
\* A price is <<>> for None, <<c>> for the number c / 100, and NotANumber
\* for a value float() rejects.
NotANumber == <<0, 0>>
AcceptsAnything(price) == TRUE

\* float(price) returns.
IsNumber(price) == Len(price) = 1

\* What calculate_price_difference returns: a float given in hundredths of
\* a percent, float('inf'), or one of the two strings.
PriceDiff(kind, v) == [kind |-> kind, v |-> v]

\* round(n / d, 0) for d > 0, a tie going to the even neighbour (the ties
\* met here are exact in binary floating point).
RoundHalfEven(n, d) ==
    LET q == n \div d
        r == n % d
    IN  IF 2 * r < d THEN q
        ELSE IF 2 * r > d THEN q + 1
        ELSE IF q % 2 = 0 THEN q ELSE q + 1

DifferenceOverOwnPrice(my_price, competitor_price) ==
    IF competitor_price # NoPrice /\ my_price # NoPrice
    THEN IF ~IsNumber(my_price) \/ ~IsNumber(competitor_price)
         THEN PriceDiff("Erreur Type", 0)
         ELSE LET my_p == my_price[1]
                  comp_p == competitor_price[1]
              IN  IF comp_p > 0 /\ my_p > 0
                  THEN PriceDiff("float", RoundHalfEven((comp_p - my_p) * 10000, my_p))
                  ELSE IF comp_p = 0 /\ my_p > 0 THEN PriceDiff("inf", 0)
                  ELSE IF comp_p = 0 /\ my_p = 0 THEN PriceDiff("float", 0)
                  ELSE PriceDiff("N/A", 0)
    ELSE PriceDiff("N/A", 0)

calculate_price_difference(my_price, competitor_price) ==
    IF competitor_price # NoPrice /\ my_price # NoPrice
    THEN IF ~IsNumber(my_price) \/ ~IsNumber(competitor_price)
         \* float() raises ValueError or TypeError
         THEN PriceDiff("Erreur Type", 0)
         ELSE LET my_p == my_price[1]
                  comp_p == competitor_price[1]
              IN  IF comp_p > 0
                  THEN PriceDiff("float", RoundHalfEven((my_p - comp_p) * 10000, comp_p))
                  ELSE IF comp_p = 0 /\ my_p > 0 THEN PriceDiff("inf", 0)
                  ELSE IF comp_p = 0 /\ my_p = 0 THEN PriceDiff("float", 0)
                  ELSE PriceDiff("N/A", 0)
    ELSE PriceDiff("N/A", 0)

\* ------------------------------------------------------ result correlator
ReportRowCheaperInverted(my_product_name, my_price, domain, competitor_url, competitor_name, competitor_price) ==
    [MonNomProduit |-> my_product_name, Concurrent |-> domain,
     NomProduitConcurrent |-> competitor_name,
     MonPrix |-> my_price, PrixConcurrent |-> competitor_price,
     EstMoinsCher |-> (my_price # NoPrice /\ competitor_price # NoPrice
                        /\ my_price[1] < competitor_price[1]),
     DifferencePrix |-> calculate_price_difference(my_price, competitor_price),
     URLConcurrent |-> competitor_url]

ReportRow(my_product_name, my_price, domain, competitor_url, competitor_name, competitor_price) ==
    [MonNomProduit |-> my_product_name, Concurrent |-> domain,
     NomProduitConcurrent |-> competitor_name,
     MonPrix |-> my_price, PrixConcurrent |-> competitor_price,
     EstMoinsCher |-> (my_price # NoPrice /\ competitor_price # NoPrice
                        /\ competitor_price[1] < my_price[1]),
     DifferencePrix |-> calculate_price_difference(my_price, competitor_price),
     URLConcurrent |-> competitor_url]

StatusAloneIsSuccess(status_str, competitor_name, competitor_price) ==
    status_str = "200"

\* if status_str == '200' and competitor_name and competitor_price is not None
IsSuccess(status_str, competitor_name, competitor_price) ==
    status_str = "200" /\ Truthy(competitor_name) /\ competitor_price # NoPrice

\* What may raise in the success branch after results_list.append.
NoRaise == "none"
CacheRaises == {"save_or_update_url", "remove_from_manual_verification"}

\* http_status is the status already passed through str().  raised: the cache
\* operation of the success branch that raises after the row was appended;
\* the except clause sets processed_ok = False and the failure branch follows,
\* status_str being '200' still.
process_single_result(results_list, my_product_name, my_price, domain, competitor_url, http_status, competitor_name, competitor_price, verification_df, products_url_df, raised) ==
    LET processed_ok == IsSuccess(http_status, competitor_name, competitor_price)
        sv == save_or_update_url(my_product_name, domain, competitor_url,
                                 products_url_df)
        rm == remove_from_manual_verification(my_product_name, domain,
                                              verification_df)
        ad == add_to_manual_verification(my_product_name, domain,
                                         verification_df, competitor_url)
        row == ReportRow(my_product_name, my_price, domain, competitor_url,
                         competitor_name, competitor_price)
    IN  IF processed_ok /\ raised = NoRaise
        THEN [verification_changed |-> rm.ret,
              products_url_changed |-> sv.ret,
              results |-> Append(results_list, row),
              verification_df |-> rm.arg,
              products_url_df |-> sv.arg,
              added |-> FALSE]
        ELSE IF processed_ok
        THEN [verification_changed |-> ad.ret,
              products_url_changed |->
                  IF raised = "save_or_update_url" THEN FALSE ELSE sv.ret,
              results |-> Append(results_list, row),
              verification_df |-> ad.arg,
              products_url_df |->
                  IF raised = "save_or_update_url" THEN products_url_df ELSE sv.arg,
              added |-> ad.ret]
        ELSE IF http_status # "Verification No URL"
        THEN [verification_changed |-> ad.ret,
              products_url_changed |-> FALSE,
              results |-> results_list,
              verification_df |-> ad.arg,
              products_url_df |-> products_url_df,
              added |-> ad.ret]
        ELSE [verification_changed |-> FALSE,
              products_url_changed |-> FALSE,
              results |-> results_list,
              verification_df |-> verification_df,
              products_url_df |-> products_url_df,
              added |-> FALSE]

\* ------------------------------------------------------------ pool task
\* Rows of df whose IndexUnique equals idx.
IndexMatch(df, idx) == {i \in 1..Len(df.rows) : df.rows[i].IndexUnique = idx}

LookupCacheFirst(index_unique, verification_df, products_url_df) ==
    LET inV == IndexMatch(verification_df, index_unique) # {}
        vUrl == verification_df.rows[
                    FirstOf(IndexMatch(verification_df, index_unique))].URLConcurrent
        inU == IndexMatch(products_url_df, index_unique) # {}
        uUrl == products_url_df.rows[
                    FirstOf(IndexMatch(products_url_df, index_unique))].URLConcurrent
    IN  IF inU /\ ValidUrl(uUrl)
        THEN [status |-> "URL From Cache", url |-> uUrl, no_url |-> FALSE]
        ELSE IF inV /\ ValidUrl(vUrl)
        THEN [status |-> "URL From Verification", url |-> vUrl, no_url |-> FALSE]
        ELSE IF inV
        THEN [status |-> "Verification No URL", url |-> vUrl, no_url |-> TRUE]
        ELSE [status |-> "Init", url |-> None, no_url |-> FALSE]

LookupIgnoresParking(index_unique, verification_df, products_url_df) ==
    LET inV == IndexMatch(verification_df, index_unique) # {}
        vUrl == verification_df.rows[
                    FirstOf(IndexMatch(verification_df, index_unique))].URLConcurrent
        inU == IndexMatch(products_url_df, index_unique) # {}
        uUrl == products_url_df.rows[
                    FirstOf(IndexMatch(products_url_df, index_unique))].URLConcurrent
    IN  IF inV /\ ValidUrl(vUrl)
        THEN [status |-> "URL From Verification", url |-> vUrl, no_url |-> FALSE]
        ELSE IF inU /\ ValidUrl(uUrl)
        THEN [status |-> "URL From Cache", url |-> uUrl, no_url |-> FALSE]
        ELSE [status |-> "Init", url |-> None, no_url |-> FALSE]

\* The local lookup of _worker_task (step 1).  raised: a column the lookup
\* reads is missing (KeyError), caught as 'LocalLookupError'.
LocalLookup(index_unique, verification_df, products_url_df) ==
    LET inV == ~IsEmpty(verification_df)
                 /\ "IndexUnique" \in verification_df.cols
                 /\ IndexMatch(verification_df, index_unique) # {}
        vRaise == inV /\ "URLConcurrent" \notin verification_df.cols
        vUrl == verification_df.rows[
                    FirstOf(IndexMatch(verification_df, index_unique))].URLConcurrent
        vOk == inV /\ ~vRaise /\ ValidUrl(vUrl)
        vNoUrl == inV /\ ~vRaise /\ ~ValidUrl(vUrl)
        inU == ~vOk /\ ~vNoUrl /\ ~vRaise
                 /\ ~IsEmpty(products_url_df)
                 /\ "IndexUnique" \in products_url_df.cols
                 /\ IndexMatch(products_url_df, index_unique) # {}
        uRaise == inU /\ "URLConcurrent" \notin products_url_df.cols
        uUrl == products_url_df.rows[
                    FirstOf(IndexMatch(products_url_df, index_unique))].URLConcurrent
    IN  IF vRaise \/ uRaise
        THEN [status |-> "LocalLookupError", url |-> None, no_url |-> FALSE]
        ELSE IF vOk
        THEN [status |-> "URL From Verification", url |-> vUrl, no_url |-> FALSE]
        ELSE IF vNoUrl
        THEN [status |-> "Verification No URL", url |-> vUrl, no_url |-> TRUE]
        ELSE IF inU /\ ValidUrl(uUrl)
        THEN [status |-> "URL From Cache", url |-> uUrl, no_url |-> FALSE]
        ELSE [status |-> "Init", url |-> None, no_url |-> FALSE]

NoDomainRequiresLpv(domain) == FALSE

\* if domain == "lepetitvapoteur.com"
RequiresLpv(domain) == domain = LPV

\* serper: what search_google_serper does if called: a URL, None (nothing
\* found) or "raise".  extract: what extract_product_info does if called:
\* <<name, price, status>>, the status "raise" standing for an exception.
\* resolver_status is the status after steps 1 and 2; searched / extracted
\* record whether the collaborator was called.
WorkerTask(my_product_name, domain, verification_df, products_url_df, serper, extract) ==
    LET look == LocalLookup(IndexUnique(my_product_name, domain),
                            verification_df, products_url_df)
        search == ~ValidUrl(look.url) /\ ~look.no_url
        status2 == IF ~search THEN look.status
                   ELSE IF serper = "raise" THEN "Serper API Error"
                   ELSE IF ValidUrl(serper) THEN "URL From Serper"
                   ELSE "Serper Not Found"
        competitor_url == IF search
                          THEN (IF serper # "raise" /\ ValidUrl(serper)
                                THEN serper ELSE look.url)
                          ELSE look.url
        base == [status |-> status2, name |-> None, price |-> NoPrice,
                 url |-> None, domain |-> domain,
                 my_product_name |-> my_product_name,
                 resolver_status |-> status2,
                 searched |-> search, extracted |-> FALSE]
    IN  IF ValidUrl(competitor_url)
        THEN IF RequiresLpv(domain)
             THEN [base EXCEPT !.url = competitor_url, !.status = "Requires LPV"]
             ELSE IF extract[3] = "raise"
             THEN [base EXCEPT !.url = competitor_url, !.extracted = TRUE,
                               !.status = "ScrapingException"]
             ELSE [base EXCEPT !.url = competitor_url, !.extracted = TRUE,
                               !.name = extract[1], !.price = extract[2],
                               !.status = extract[3]]
        ELSE IF ~look.no_url
                /\ status2 \notin {"Serper Not Found", "Serper API Error",
                                   "LocalLookupError"}
        THEN [base EXCEPT !.status = "No URL To Scrape"]
        ELSE base

\* ------------------------------------------------------------------ inputs
W1 == <<"w">>
G1 == <<"g">>
Names == {W1, G1}
Domains == {LPV, TAK}
Pairs == Names \X Domains

Price50 == <<5000>>
Price40 == <<4000>>

CsvRow(name, price) == [NomProduit |-> name, MonPrix |-> price]

\* Rows an input catalog is made of: a priced product, and a row whose
\* price cell is empty.
CatalogRows == {CsvRow(W1, Price50), CsvRow(G1, NoPrice)}

RECURSIVE SeqsUpTo(_, _)
SeqsUpTo(S, n) ==
    IF n = 0 THEN {<<>>}
    ELSE LET shorter == SeqsUpTo(S, n - 1)
         IN  shorter \cup {Append(q, x) : q \in {t \in shorter : Len(t) = n - 1}, x \in S}

Catalogs == SeqsUpTo(CatalogRows, MaxPairs) \ {<<>>}

CompetitorLists == {<<LPV>>, <<TAK>>, <<LPV, TAK>>}

SheetRow(product_name, domain, url) ==
    [product |-> product_name, domain |-> domain, url |-> url]

\* Contents of the two remote sheets before the first run.
InitialRemotes ==
    { [verification |-> <<>>, products_url |-> <<>>],
      [verification |-> <<SheetRow(W1, LPV, "url_v")>>,
       products_url |-> <<SheetRow(W1, TAK, "url_c")>>],
      [verification |-> <<SheetRow(W1, TAK, "url_v")>>,
       products_url |-> <<SheetRow(W1, TAK, "url_c"), SheetRow(W1, LPV, "url_c")>>],
      [verification |-> <<SheetRow(W1, TAK, "")>>,
       products_url |-> <<SheetRow(W1, LPV, "")>>] }

\* What the search collaborator may answer.
SerperOutcomes == {"url_s", None, "raise"}
\* What the lightweight extractor may answer.
ExtractOutcomes ==
    { <<"Widget Pro", Price40, "200">>, <<"Widget Pro", NoPrice, "200">>,
      <<None, NoPrice, "404">> }
\* What the browser extraction may answer ("raise": an exception escapes
\* scrape_with_selenium_lpv_core, for instance a failing import).
LpvOutcomes ==
    { <<"Widget Pro", Price40, "200">>, <<None, NoPrice, "408">>,
      <<None, NoPrice, "raise">> }

\* ------------------------------------------------------------------- state
VARIABLES
    remote,                            \* the two Google sheets
    GlobalStore,                       \* process-wide DataFrames and dirty flags
    catalog,                           \* rows of input_csv
    competitors,                       \* the selected domains
    run,                               \* number of the current call
    pc,                                \* where process_products is
    verification_df,                   \* local copies
    products_url_df,
    verification_needs_global_update,
    products_url_needs_global_update,
    results,                           \* report rows
    product_prices,
    total_tasks,
    completed_final_tasks,
    futures,                           \* initial_futures_map, in submission order
    lpv_url_queue,
    lpv_result_queue,
    lpv_process,                       \* None or "LPVWorker"
    lpv_tasks_submitted_count,
    collect_i,                         \* i of the collection loop
    worker,                            \* the worker process
    progress_calls,                    \* history: arguments of progress_callback
    psr_calls,                         \* history: statuses process_single_result got, per pair
    last_psr,                          \* history: the last call of process_single_result
    timeouts,                          \* history: result waits that ended in queue.Empty
    prev_run,                          \* history: what the previous call ended with
    run_io,                            \* history: loads, writes and outcome of this call
    worker_io,                         \* history: tasks the worker took, results it put
    call_log,                          \* history: direct calls of the cache operations
    GSPREAD_CLIENT,                    \* the module's gspread client
    gs_client_lock,                    \* the thread that holds the lock
    callers,                           \* threads inside get_gspread_client
    constructed,                       \* history: clients gspread.authorize returned
    lock_file,                         \* the instance that holds the lock file
    instances                          \* the application processes

persist == <<remote, GlobalStore>>
inputs == <<catalog, competitors, run>>
caches == <<verification_df, products_url_df, verification_needs_global_update,
            products_url_needs_global_update, results>>
prog == <<total_tasks, completed_final_tasks, progress_calls>>
queues == <<lpv_url_queue, lpv_result_queue>>
orch_lpv == <<lpv_process, lpv_tasks_submitted_count, collect_i>>
psr_hist == <<psr_calls, last_psr>>
hist == <<psr_hist, timeouts, prev_run, run_io, worker_io, call_log>>

client == <<GSPREAD_CLIENT, gs_client_lock, callers, constructed>>
app == <<lock_file, instances>>
side == <<client, app>>

vars == <<persist, inputs, pc, caches, product_prices, prog, futures, queues,
          orch_lpv, worker, hist, side>>

\* ------------------------------------------------------ the gspread client
\* Most threads that call get_gspread_client at the same time.
MaxCallers == 3
Callers == 1..MaxCallers

\* GSPREAD_CLIENT = None; a client is the number of its construction.
NoClient == 0
\* gs_client_lock is free.
NoCaller == 0

IdleCallers == [t \in Callers |-> [pc |-> "idle", got |-> NoClient]]

\* get_gspread_client called by one thread while no other is in it, the
\* construction succeeding.
FirstUse ==
    IF GSPREAD_CLIENT = NoClient
    THEN /\ GSPREAD_CLIENT' = constructed + 1
         /\ constructed' = constructed + 1
    ELSE UNCHANGED <<GSPREAD_CLIENT, constructed>>

\* if GSPREAD_CLIENT is None:   (outside the lock)
ClientFirstCheck(t) ==
    /\ pc = "client"
    /\ callers[t].pc = "idle"
    /\ callers' = [callers EXCEPT ![t].pc = IF GSPREAD_CLIENT = NoClient
                                            THEN "wait_lock" ELSE "return"]
    /\ UNCHANGED <<persist, inputs, pc, caches, product_prices, prog, futures,
                   queues, orch_lpv, worker, hist, GSPREAD_CLIENT, gs_client_lock,
                   constructed, app>>

\* with gs_client_lock:   (entry)
ClientAcquire(t) ==
    /\ pc = "client"
    /\ callers[t].pc = "wait_lock"
    /\ gs_client_lock = NoCaller
    /\ gs_client_lock' = t
    /\ callers' = [callers EXCEPT ![t].pc = "locked"]
    /\ UNCHANGED <<persist, inputs, pc, caches, product_prices, prog, futures,
                   queues, orch_lpv, worker, hist, GSPREAD_CLIENT, constructed, app>>

SecondCheckSkipped(c) == TRUE

\* if GSPREAD_CLIENT is None:   (inside the lock)
SecondCheck(c) == c = NoClient

\* The body of the with block: the second check and, if the client is still
\* None, gspread.authorize, which returns a client or raises (the exception
\* leaves the with block, which releases the lock).
ClientConstruct(t) ==
    /\ pc = "client"
    /\ callers[t].pc = "locked"
    /\ IF SecondCheck(GSPREAD_CLIENT)
       THEN \E ok \in BOOLEAN :
              IF ok
              THEN /\ GSPREAD_CLIENT' = constructed + 1
                   /\ constructed' = constructed + 1
                   /\ callers' = [callers EXCEPT ![t].pc = "unlock"]
                   /\ UNCHANGED gs_client_lock
              ELSE /\ callers' = [callers EXCEPT ![t].pc = "raised"]
                   /\ gs_client_lock' = NoCaller
                   /\ UNCHANGED <<GSPREAD_CLIENT, constructed>>
       ELSE /\ callers' = [callers EXCEPT ![t].pc = "unlock"]
            /\ UNCHANGED <<GSPREAD_CLIENT, constructed, gs_client_lock>>
    /\ UNCHANGED <<persist, inputs, pc, caches, product_prices, prog, futures,
                   queues, orch_lpv, worker, hist, app>>

\* The with block is left: the lock is released.
ClientRelease(t) ==
    /\ pc = "client"
    /\ callers[t].pc = "unlock"
    /\ gs_client_lock' = NoCaller
    /\ callers' = [callers EXCEPT ![t].pc = "return"]
    /\ UNCHANGED <<persist, inputs, pc, caches, product_prices, prog, futures,
                   queues, orch_lpv, worker, hist, GSPREAD_CLIENT, constructed, app>>

\* return GSPREAD_CLIENT
ClientReturn(t) ==
    /\ pc = "client"
    /\ callers[t].pc = "return"
    /\ callers' = [callers EXCEPT ![t].pc = "done", ![t].got = GSPREAD_CLIENT]
    /\ UNCHANGED <<persist, inputs, pc, caches, product_prices, prog, futures,
                   queues, orch_lpv, worker, hist, GSPREAD_CLIENT, gs_client_lock,
                   constructed, app>>

\* ---------------------------------------------------- the single instance
\* Most application processes that are started.
MaxInstances == 3
Instances == 1..MaxInstances

\* Nobody holds the lock file.
NoInstance == 0

NotStarted == [i \in Instances |-> [pc |-> "start", gui |-> FALSE]]

AcquireIgnoresHolder(i) ==
    /\ pc = "app"
    /\ instances[i].pc = "start"
    /\ lock_file' = i
    /\ instances' = [instances EXCEPT ![i].pc = "locked"]
    /\ UNCHANGED <<persist, inputs, pc, caches, product_prices, prog, futures,
                   queues, orch_lpv, worker, hist, client>>

\* main calls acquire_lock: app_lock.acquire(timeout=0) takes the free lock
\* file; Timeout, or another exception, makes acquire_lock return None and
\* main call sys.exit(1).
AcquireLock(i) ==
    /\ pc = "app"
    /\ instances[i].pc = "start"
    /\ \E raises \in BOOLEAN :
         IF lock_file = NoInstance /\ ~raises
         THEN /\ lock_file' = i
              /\ instances' = [instances EXCEPT ![i].pc = "locked"]
         ELSE /\ instances' = [instances EXCEPT ![i].pc = "refused"]
              /\ UNCHANGED lock_file
    /\ UNCHANGED <<persist, inputs, pc, caches, product_prices, prog, futures,
                   queues, orch_lpv, worker, hist, client>>

\* tk.Tk() and ScraperApp(root) return and the main loop starts, or one of
\* them raises.
CreateGui(i) ==
    /\ pc = "app"
    /\ instances[i].pc = "locked"
    /\ \E ok \in BOOLEAN :
         instances' = [instances EXCEPT ![i].pc = IF ok THEN "gui" ELSE "finally",
                                        ![i].gui = ok]
    /\ UNCHANGED <<persist, inputs, pc, caches, product_prices, prog, futures,
                   queues, orch_lpv, worker, hist, client, lock_file>>

\* The window is closed (on_close destroys it and mainloop returns), or an
\* exception leaves the main loop and is logged.
LeaveMainloop(i) ==
    /\ pc = "app"
    /\ instances[i].pc = "gui"
    /\ instances' = [instances EXCEPT ![i].pc = "finally"]
    /\ UNCHANGED <<persist, inputs, pc, caches, product_prices, prog, futures,
                   queues, orch_lpv, worker, hist, client, lock_file>>

\* finally: release_lock(lock), and the process ends.
ReleaseLock(i) ==
    /\ pc = "app"
    /\ instances[i].pc = "finally"
    /\ lock_file' = IF lock_file = i THEN NoInstance ELSE lock_file
    /\ instances' = [instances EXCEPT ![i].pc = "exited"]
    /\ UNCHANGED <<persist, inputs, pc, caches, product_prices, prog, futures,
                   queues, orch_lpv, worker, hist, client>>

\* The program is started again by the user.
Relaunch(i) ==
    /\ pc = "app"
    /\ instances[i].pc \in {"exited", "refused"}
    /\ instances' = [instances EXCEPT ![i] = [pc |-> "start", gui |-> FALSE]]
    /\ UNCHANGED <<persist, inputs, pc, caches, product_prices, prog, futures,
                   queues, orch_lpv, worker, hist, client, lock_file>>

\* ------------------------------------------------------------------- load
\* load_verification_sheet: None on failure, else the rows as strings.
load_verification_sheet(fails) ==
    IF fails THEN [none |-> TRUE, df |-> EmptyDF({})]
    ELSE [none |-> FALSE,
          df |-> [cols |-> REQUIRED_COLUMNS_VERIFICATION,
                  rows |-> [i \in 1..Len(remote.verification) |->
                              VRow(remote.verification[i].product,
                                   remote.verification[i].domain,
                                   remote.verification[i].url, NaNIndex)]]]

load_products_url_sheet(fails) ==
    IF fails THEN [none |-> TRUE, df |-> EmptyDF({})]
    ELSE [none |-> FALSE,
          df |-> [cols |-> REQUIRED_COLUMNS_PRODUCTS_URL,
                  rows |-> [i \in 1..Len(remote.products_url) |->
                              URow(remote.products_url[i].product,
                                   remote.products_url[i].domain,
                                   remote.products_url[i].url, NaNIndex)]]]

\* GlobalStore after load_sheets_into_memory; the dirty flags are untouched.
load_sheets_into_memory(failV, failU) ==
    LET v == load_verification_sheet(failV)
        u == load_products_url_sheet(failU)
    IN  [GlobalStore EXCEPT
            !.verification_df =
                IF v.none THEN EmptyDF(REQUIRED_COLUMNS_VERIFICATION) ELSE v.df,
            !.products_url_df =
                IF u.none THEN EmptyDF(REQUIRED_COLUMNS_PRODUCTS_URL) ELSE u.df]

\* The normalised IndexUnique column of the local copies.
IndexVerification(df) ==
    IF ~IsEmpty(df)
    THEN IF {"MonNomProduit", "Concurrent"} \subseteq df.cols
         THEN [cols |-> df.cols \cup {"_nom_norm", "_dom_norm", "IndexUnique"},
               rows |-> [i \in 1..Len(df.rows) |->
                           [df.rows[i] EXCEPT !.IndexUnique =
                               IndexUnique(df.rows[i].MonNomProduit,
                                           df.rows[i].Concurrent)]]]
         ELSE df
    ELSE [df EXCEPT !.cols = df.cols \cup {"IndexUnique"}]

IndexProductsUrl(df) ==
    IF ~IsEmpty(df)
    THEN IF {"NomProduit", "CompetitorDomain"} \subseteq df.cols
         THEN [cols |-> df.cols \cup {"_nom_norm", "_dom_norm", "IndexUnique"},
               rows |-> [i \in 1..Len(df.rows) |->
                           [df.rows[i] EXCEPT !.IndexUnique =
                               IndexUnique(df.rows[i].NomProduit,
                                           df.rows[i].CompetitorDomain)]]]
         ELSE df
    ELSE [df EXCEPT !.cols = df.cols \cup {"IndexUnique"}]

\* products.set_index('NomProduit')['_my_price_float'].dropna().to_dict():
\* the last priced row of a name wins; NoPrice stands for an absent key.
ProductPrices(products) ==
    [n \in Names |->
        LET priced == {i \in 1..Len(products) :
                          products[i].NomProduit = n /\ products[i].MonPrix # NoPrice}
        IN  IF priced = {} THEN NoPrice
            ELSE products[CHOOSE i \in priced : \A j \in priced : j <= i].MonPrix]

InList(x, list) == \E i \in 1..Len(list) : list[i] = x

NoTask == [kind |-> "None"]
NewWorker == [state |-> "none", driver |-> "none", task |-> NoTask]

IsAlive == worker.state \in {"init", "ready", "busy"}

TerminateLeavesAlive(w) == w

\* lpv_process.terminate(): the process is killed where it stands; nothing
\* of its own code runs any more, its driver is left as it is.
terminate(w) == [w EXCEPT !.state = "terminated"]

NoPrevRun == [serper_success |-> {}, products_url_flushed |-> FALSE]
NoPsr == [called |-> FALSE, added |-> FALSE, my_product_name |-> <<>>, domain |-> <<>>,
          url |-> None, status |-> None, success |-> FALSE,
          had_verification |-> FALSE,
          competitor_name |-> None, competitor_price |-> NoPrice,
          changed |-> FALSE]
NoWorkerIo == [taken |-> <<>>, put |-> <<>>]
NoRunIo == [load_failed |-> FALSE, csv_missing |-> FALSE, copied |-> {},
            written |-> [verification |-> "none", products_url |-> "none"],
            displayed |-> FALSE, fatal |-> FALSE, outcome |-> "running"]

\* ------------------------------------------------------------------- Init
\* The state before anything has run, but for the inputs and the DataFrames.
Fresh ==
    /\ run = 1
    /\ verification_needs_global_update = FALSE
    /\ products_url_needs_global_update = FALSE
    /\ results = <<>>
    /\ product_prices = [n \in Names |-> NoPrice]
    /\ total_tasks = 0
    /\ completed_final_tasks = 0
    /\ futures = <<>>
    /\ lpv_url_queue = <<>>
    /\ lpv_result_queue = <<>>
    /\ lpv_process = None
    /\ lpv_tasks_submitted_count = 0
    /\ collect_i = 0
    /\ worker = NewWorker
    /\ progress_calls = <<>>
    /\ psr_calls = [pr \in Pairs |-> <<>>]
    /\ last_psr = NoPsr
    /\ timeouts = 0
    /\ prev_run = NoPrevRun
    /\ run_io = NoRunIo
    /\ worker_io = NoWorkerIo
    /\ call_log = <<>>
    /\ GSPREAD_CLIENT = NoClient
    /\ gs_client_lock = NoCaller
    /\ callers = IdleCallers
    /\ constructed = 0
    /\ lock_file = NoInstance
    /\ instances = NotStarted

InitWith(max_pairs) ==
    /\ remote \in InitialRemotes
    /\ GlobalStore = [verification_df |-> EmptyDF({}),
                      products_url_df |-> EmptyDF({}),
                      verification_changed |-> FALSE,
                      products_url_changed |-> FALSE]
    /\ catalog \in Catalogs
    /\ competitors \in CompetitorLists
    /\ Len(catalog) * Len(competitors) <= max_pairs
    /\ pc = "start"
    /\ verification_df = EmptyDF({})
    /\ products_url_df = EmptyDF({})
    /\ Fresh

Init == InitWith(MaxPairs)


\* ------------------------------------------------- process_products, start
TotalOfProducts(products, domains) == Len(products)

\* total_tasks = total_products_csv * len(competitors)
TotalTasks(products, domains) == Len(products) * Len(domains)

\* Etapes 1 and 2: load the sheets, copy and index them, read the catalog,
\* announce the total, start the worker process when LPV is selected.
\* failV, failU: the load of a sheet fails; startOk: Process.start() returns.
StartRunWith(failV, failU, startOk) ==
    /\ pc = "start"
    /\   LET gs == load_sheets_into_memory(failV, failU)
             total == TotalTasks(catalog, competitors)
         IN  /\ GlobalStore' = gs
             /\ verification_df' = IndexVerification(gs.verification_df)
             /\ products_url_df' = IndexProductsUrl(gs.products_url_df)
             /\ product_prices' = ProductPrices(catalog)
             /\ total_tasks' = total
             /\ completed_final_tasks' = 0
             /\ progress_calls' = <<<<0, total>>>>
             /\ IF InList(LPV, competitors)
                THEN IF startOk
                     THEN /\ worker' = [NewWorker EXCEPT !.state = "init"]
                          /\ lpv_process' = "LPVWorker"
                          /\ pc' = "worker_check"
                     ELSE /\ worker' = NewWorker
                          /\ lpv_process' = None
                          /\ pc' = "submit"
                ELSE /\ worker' = NewWorker
                     /\ lpv_process' = None
                     /\ pc' = "submit"
    /\ run_io' = [run_io EXCEPT !.load_failed = failV \/ failU]
    /\ IF failV /\ failU
       THEN UNCHANGED <<GSPREAD_CLIENT, constructed>>
       ELSE FirstUse
    /\ UNCHANGED <<remote, inputs, gs_client_lock, callers, app, verification_needs_global_update,
                   products_url_needs_global_update, results, futures, queues,
                   lpv_tasks_submitted_count, collect_i, psr_hist, timeouts,
                   prev_run, worker_io, call_log>>

\* The start of a call in which both sheets load and the process starts.
StartRun == StartRunWith(FALSE, FALSE, TRUE)

\* What may go wrong at the start: <<failV, failU, startOk>> for a load of
\* the verification sheet that fails, a load of the products_url sheet that
\* fails, lpv_process.start() that raises.
StartFaults == {<<TRUE, FALSE, TRUE>>, <<FALSE, TRUE, TRUE>>, <<FALSE, FALSE, FALSE>>}

StartFaulty == \E f \in StartFaults : StartRunWith(f[1], f[2], f[3])

\* The input file has no 'NomProduit' or no 'MonPrix' column: after the
\* sheets are loaded and indexed, the error is logged and shown, and
\* process_products returns through its finally clause.
StartCsvMissingColumns ==
    /\ pc = "start"
    /\ LET gs == load_sheets_into_memory(FALSE, FALSE)
       IN  /\ GlobalStore' = gs
           /\ verification_df' = IndexVerification(gs.verification_df)
           /\ products_url_df' = IndexProductsUrl(gs.products_url_df)
    /\ run_io' = [run_io EXCEPT !.csv_missing = TRUE]
    /\ pc' = "finally"
    /\ FirstUse
    /\ UNCHANGED <<remote, inputs, gs_client_lock, callers, app, verification_needs_global_update,
                   products_url_needs_global_update, results, product_prices,
                   prog, futures, queues, orch_lpv, worker, psr_hist, timeouts,
                   prev_run, worker_io, call_log>>

\* thread_pool.submit raises (no thread can be started): the handler of the
\* fatal error terminates a live worker and raises again.
FatalError ==
    /\ pc = "submit"
    /\ worker' = IF lpv_process # None /\ IsAlive
                 THEN terminate(worker) ELSE worker
    /\ run_io' = [run_io EXCEPT !.fatal = TRUE]
    /\ pc' = "finally"
    /\ UNCHANGED <<persist, inputs, side, caches, product_prices, prog, futures, queues,
                   orch_lpv, psr_hist, timeouts, prev_run, worker_io, call_log>>

\* time.sleep(0.5) is over: if not lpv_process.is_alive(): lpv_process = None
LivenessCheck ==
    /\ pc = "worker_check"
    /\ lpv_process' = IF IsAlive THEN lpv_process ELSE None
    /\ pc' = "submit"
    /\ UNCHANGED <<persist, inputs, side, caches, product_prices, prog, futures,
                   queues, lpv_tasks_submitted_count, collect_i, worker, hist>>

\* ------------------------------------------------------------- submission
Future(name, domain, price) ==
    [my_product_name |-> name, domain |-> domain, my_price |-> price,
     state |-> "running", result |-> None]

RECURSIVE DomainTasks(_, _, _, _)
DomainTasks(name, price, comps, k) ==
    IF k > Len(comps) THEN <<>>
    ELSE <<Future(name, comps[k], price)>> \o DomainTasks(name, price, comps, k + 1)

\* for product_row in products.itertuples(): ... for domain in competitors:
RECURSIVE SubmitTasks(_, _, _, _)
SubmitTasks(products, prices, comps, i) ==
    IF i > Len(products) THEN <<>>
    ELSE LET name == products[i].NomProduit
             price == IF name \in Names THEN prices[name] ELSE NoPrice
         IN  (IF name = <<>> \/ price = NoPrice THEN <<>>
              ELSE DomainTasks(name, price, comps, 1))
             \o SubmitTasks(products, prices, comps, i + 1)

Submit ==
    /\ pc = "submit"
    /\ futures' = SubmitTasks(catalog, product_prices, competitors, 1)
    /\ pc' = "pool"
    /\ UNCHANGED <<persist, inputs, side, caches, product_prices, prog, queues,
                   orch_lpv, worker, hist>>

TaskRunWritesCache(i) ==
    /\ futures[i].state = "running"
    /\ \E serper \in SerperOutcomes, extract \in ExtractOutcomes :
         LET result == WorkerTask(futures[i].my_product_name, futures[i].domain,
                                  verification_df, products_url_df, serper, extract)
         IN  /\ futures' = [futures EXCEPT ![i].state = "done", ![i].result = result]
             /\ products_url_df' =
                   IF result.resolver_status = "URL From Serper"
                   THEN Concat(products_url_df,
                               URow(futures[i].my_product_name, futures[i].domain,
                                    result.url, NaNIndex))
                   ELSE products_url_df
    /\ UNCHANGED <<persist, inputs, side, pc, verification_df,
                   verification_needs_global_update,
                   products_url_needs_global_update, results, product_prices,
                   prog, queues, orch_lpv, worker, hist>>

\* A pool thread runs _worker_task for future i to its end.
TaskRun(i) ==
    /\ futures[i].state = "running"
    /\ \E serper \in SerperOutcomes, extract \in ExtractOutcomes :
         futures' = [futures EXCEPT
                       ![i].state = "done",
                       ![i].result = WorkerTask(futures[i].my_product_name,
                                                futures[i].domain,
                                                verification_df, products_url_df,
                                                serper, extract)]
    /\ UNCHANGED <<persist, inputs, side, pc, caches, product_prices, prog, queues,
                   orch_lpv, worker, hist>>

\* ------------------------------------------------------ orchestrator steps
HasVerificationEntry(df, name, domain) ==
    \E k \in 1..Len(df.rows) :
        df.rows[k].MonNomProduit = name /\ df.rows[k].Concurrent = domain

\* A call of process_single_result on the local DataFrames, with the
\* caller's bookkeeping of the two flags.
Correlate(name, price, domain, url, status, cname, cprice, raised) ==
    LET r == process_single_result(results, name, price, domain, url, status,
                                   cname, cprice, verification_df, products_url_df,
                                   raised)
    IN  /\ results' = r.results
        /\ verification_df' = r.verification_df
        /\ products_url_df' = r.products_url_df
        /\ verification_needs_global_update' =
              (verification_needs_global_update \/ r.verification_changed)
        /\ products_url_needs_global_update' =
              (products_url_needs_global_update \/ r.products_url_changed)
        /\ psr_calls' = [psr_calls EXCEPT ![<<name, domain>>] = Append(@, status)]
        /\ last_psr' = [called |-> TRUE, my_product_name |-> name, domain |-> domain,
                        url |-> url, status |-> status,
                        success |-> Len(r.results) > Len(results),
                        added |-> r.added,
                        had_verification |->
                            HasVerificationEntry(verification_df, name, domain),
                        competitor_name |-> cname, competitor_price |-> cprice,
                        changed |-> \/ r.verification_df # verification_df
                                    \/ r.products_url_df # products_url_df
                                    \/ r.verification_changed
                                    \/ r.products_url_changed]

ProgressCountsTwice ==
    /\ completed_final_tasks' = completed_final_tasks + 2
    /\ progress_calls' = Append(progress_calls,
                                <<completed_final_tasks + 2, total_tasks>>)
    /\ UNCHANGED total_tasks

\* completed_final_tasks += 1; progress_callback(completed_final_tasks, total_tasks)
Progress ==
    /\ completed_final_tasks' = completed_final_tasks + 1
    /\ progress_calls' = Append(progress_calls,
                                <<completed_final_tasks + 1, total_tasks>>)
    /\ UNCHANGED total_tasks

LpvTask(url, name) == [kind |-> "task", url |-> url, my_product_name |-> name]
Sentinel == [kind |-> "None"]

ForwardsBlindly(url_for_lpv) == Truthy(url_for_lpv)

\* if url_for_lpv and lpv_process and lpv_process.is_alive()
CanForward(url_for_lpv) ==
    Truthy(url_for_lpv) /\ lpv_process # None /\ IsAlive

\* One iteration of the as_completed loop, for the completed future i.
\* raised: what raises inside process_single_result.
HandleFutureWith(i, raised) ==
    /\ pc = "pool"
    /\ futures[i].state = "done"
    /\ futures' = [futures EXCEPT ![i].state = "handled"]
    /\ LET f == futures[i]
           result == f.result
       IN  IF result.status = "Requires LPV"
           THEN IF CanForward(result.url)
                THEN /\ lpv_url_queue' =
                          Append(lpv_url_queue, LpvTask(result.url, f.my_product_name))
                     /\ lpv_tasks_submitted_count' = lpv_tasks_submitted_count + 1
                     /\ UNCHANGED <<caches, prog, hist>>
                ELSE /\ Correlate(f.my_product_name, f.my_price, f.domain, result.url,
                                  IF ~Truthy(result.url) THEN "No URL To Scrape"
                                  ELSE "LPV Worker Not Ready",
                                  None, NoPrice, raised)
                     /\ Progress
                     /\ UNCHANGED <<lpv_url_queue, lpv_tasks_submitted_count,
                                    timeouts, prev_run, run_io, worker_io, call_log>>
           ELSE /\ Correlate(f.my_product_name, f.my_price, f.domain, result.url,
                             result.status, result.name, result.price, raised)
                /\ Progress
                /\ UNCHANGED <<lpv_url_queue, lpv_tasks_submitted_count,
                               timeouts, prev_run, run_io, worker_io, call_log>>
    /\ UNCHANGED <<persist, inputs, side, pc, product_prices, lpv_result_queue,
                   lpv_process, collect_i, worker>>

\* An iteration in which the cache operations do as their code says: they
\* raise on no DataFrame a run builds.
HandleFuture(i) == HandleFutureWith(i, NoRaise)

\* An iteration on a successful result in which a cache operation raises
\* (an exception of pandas, a MemoryError).
HandleFutureRaising(i) ==
    /\ futures[i].state = "done"
    /\ IsSuccess(futures[i].result.status, futures[i].result.name,
                 futures[i].result.price)
    /\ \E raised \in CacheRaises : HandleFutureWith(i, raised)

\* as_completed is exhausted and the pool is shut down.
PoolExit ==
    /\ pc = "pool"
    /\ \A i \in 1..Len(futures) : futures[i].state = "handled"
    /\ pc' = "collect"
    /\ collect_i' = 0
    /\ UNCHANGED <<persist, inputs, side, caches, product_prices, prog, futures, queues,
                   lpv_process, lpv_tasks_submitted_count, worker, hist>>

\* lpv_result_queue.get(timeout=180) returns a result.
CollectResult ==
    /\ pc = "collect"
    /\ collect_i < lpv_tasks_submitted_count
    /\ lpv_result_queue # <<>>
    /\ LET lpv_result == Head(lpv_result_queue)
           name == lpv_result.my_product_name
           res_my_price == IF name \in Names THEN product_prices[name] ELSE NoPrice
       IN  /\ lpv_result_queue' = Tail(lpv_result_queue)
           /\ IF name # <<>> /\ lpv_result.domain # <<>> /\ res_my_price # NoPrice
              THEN Correlate(name, res_my_price, lpv_result.domain, lpv_result.url,
                             lpv_result.status, lpv_result.name, lpv_result.price,
                             NoRaise)
              ELSE UNCHANGED <<caches, psr_hist>>
    /\ Progress
    /\ collect_i' = collect_i + 1
    /\ UNCHANGED <<persist, inputs, side, pc, product_prices, futures, lpv_url_queue,
                   lpv_process, lpv_tasks_submitted_count, worker, timeouts,
                   prev_run, run_io, worker_io, call_log>>

\* lpv_result_queue.get(timeout=180) raises queue.Empty.
CollectTimeout ==
    /\ pc = "collect"
    /\ collect_i < lpv_tasks_submitted_count
    /\ lpv_result_queue = <<>>
    /\ Progress
    /\ collect_i' = collect_i + 1
    /\ timeouts' = timeouts + 1
    /\ UNCHANGED <<persist, inputs, side, pc, caches, product_prices, futures, queues,
                   lpv_process, lpv_tasks_submitted_count, worker, psr_hist,
                   prev_run, run_io, worker_io, call_log>>

\* Etape 6, first half: the sentinel is sent to a live worker.
Shutdown ==
    /\ pc = "collect"
    /\ collect_i = lpv_tasks_submitted_count
    /\ IF lpv_process # None /\ IsAlive
       THEN /\ lpv_url_queue' = Append(lpv_url_queue, Sentinel)
            /\ pc' = "join"
       ELSE /\ UNCHANGED lpv_url_queue
            /\ pc' = "flush"
    /\ UNCHANGED <<persist, inputs, side, caches, product_prices, prog, futures,
                   lpv_result_queue, orch_lpv, worker, hist>>

\* lpv_process.join(timeout=15) returns because the worker has exited.
JoinExited ==
    /\ pc = "join"
    /\ ~IsAlive
    /\ pc' = "flush"
    /\ UNCHANGED <<persist, inputs, side, caches, product_prices, prog, futures, queues,
                   orch_lpv, worker, hist>>

\* join(15) ran out with the worker alive: terminate(); join(5).
JoinTimeout ==
    /\ pc = "join"
    /\ IsAlive
    /\ worker' = terminate(worker)
    /\ pc' = "flush"
    /\ UNCHANGED <<persist, inputs, side, caches, product_prices, prog, futures, queues,
                   orch_lpv, hist>>

\* -------------------------------------------------------------- the worker
\* uc.Chrome(...) returned: the driver exists, the loop starts.
WorkerInitOk ==
    /\ worker.state = "init"
    /\ worker' = [worker EXCEPT !.state = "ready", !.driver = "open"]
    /\ UNCHANGED <<persist, inputs, side, pc, caches, product_prices, prog, futures,
                   queues, orch_lpv, hist>>

\* The driver initialisation raised: the worker returns, driver is None.
WorkerInitFail ==
    /\ worker.state = "init"
    /\ worker' = [worker EXCEPT !.state = "exited"]
    /\ UNCHANGED <<persist, inputs, side, pc, caches, product_prices, prog, futures,
                   queues, orch_lpv, hist>>

WorkerGetLeavesTask ==
    /\ worker.state = "ready"
    /\ lpv_url_queue # <<>>
    /\ lpv_url_queue' = IF Head(lpv_url_queue).kind = "None"
                        THEN Tail(lpv_url_queue) ELSE lpv_url_queue
    /\ IF Head(lpv_url_queue).kind = "None"
       THEN worker' = [worker EXCEPT !.state = "exited", !.driver = "quit"]
       ELSE worker' = [worker EXCEPT !.state = "busy", !.task = Head(lpv_url_queue)]
    /\ worker_io' =
         IF Head(lpv_url_queue).kind = "None" THEN worker_io
         ELSE [worker_io EXCEPT !.taken =
                  Append(@, <<Head(lpv_url_queue).my_product_name,
                              Head(lpv_url_queue).url>>)]
    /\ UNCHANGED <<persist, inputs, side, pc, caches, product_prices, prog, futures,
                   lpv_result_queue, orch_lpv, psr_hist, timeouts, prev_run, run_io,
                   call_log>>

\* url_queue.get() returns: the sentinel ends the loop and the finally block
\* quits the driver; a task is taken up.
WorkerGet ==
    /\ worker.state = "ready"
    /\ lpv_url_queue # <<>>
    /\ lpv_url_queue' = Tail(lpv_url_queue)
    /\ IF Head(lpv_url_queue).kind = "None"
       THEN worker' = [worker EXCEPT !.state = "exited", !.driver = "quit"]
       ELSE worker' = [worker EXCEPT !.state = "busy", !.task = Head(lpv_url_queue)]
    /\ worker_io' =
         IF Head(lpv_url_queue).kind = "None" THEN worker_io
         ELSE [worker_io EXCEPT !.taken =
                  Append(@, <<Head(lpv_url_queue).my_product_name,
                              Head(lpv_url_queue).url>>)]
    /\ UNCHANGED <<persist, inputs, side, pc, caches, product_prices, prog, futures,
                   lpv_result_queue, orch_lpv, psr_hist, timeouts, prev_run, run_io,
                   call_log>>

LpvResult(status, name, price, url, my_product_name) ==
    [status |-> status, name |-> name, price |-> price, url |-> url,
     domain |-> LPV, my_product_name |-> my_product_name]

ScrapeDropsTaskOnRaise ==
    /\ worker.state = "busy"
    /\ \E out \in LpvOutcomes :
         LET result == LpvResult(out[3], out[1], out[2],
                                 worker.task.url, worker.task.my_product_name)
         IN  IF out[3] = "raise"
             THEN UNCHANGED <<lpv_result_queue, worker_io>>
             ELSE /\ lpv_result_queue' = Append(lpv_result_queue, result)
                  /\ worker_io' = [worker_io EXCEPT !.put =
                                      Append(@, <<result.my_product_name, result.url>>)]
    /\ worker' = [worker EXCEPT !.state = "ready", !.task = NoTask]
    /\ UNCHANGED <<persist, inputs, side, pc, caches, product_prices, prog, futures,
                   lpv_url_queue, orch_lpv, psr_hist, timeouts, prev_run, run_io,
                   call_log>>

WorkerPutsInFront ==
    /\ worker.state = "busy"
    /\ \E out \in LpvOutcomes :
         LET result == IF out[3] = "raise"
                       THEN LpvResult("WorkerLoopError", None, NoPrice,
                                      worker.task.url, worker.task.my_product_name)
                       ELSE LpvResult(out[3], out[1], out[2],
                                      worker.task.url, worker.task.my_product_name)
         IN  /\ lpv_result_queue' = <<result>> \o lpv_result_queue
             /\ worker_io' = [worker_io EXCEPT !.put =
                                 Append(@, <<result.my_product_name, result.url>>)]
    /\ worker' = [worker EXCEPT !.state = "ready", !.task = NoTask]
    /\ UNCHANGED <<persist, inputs, side, pc, caches, product_prices, prog, futures,
                   lpv_url_queue, orch_lpv, psr_hist, timeouts, prev_run, run_io,
                   call_log>>

\* scrape_with_selenium_lpv_core returns or raises for the task in hand, and
\* the result (or the WorkerLoopError of the except clause) is put.
WorkerScrape ==
    /\ worker.state = "busy"
    /\ \E out \in LpvOutcomes :
         LET result == IF out[3] = "raise"
                       THEN LpvResult("WorkerLoopError", None, NoPrice,
                                      worker.task.url, worker.task.my_product_name)
                       ELSE LpvResult(out[3], out[1], out[2],
                                      worker.task.url, worker.task.my_product_name)
         IN  /\ lpv_result_queue' = Append(lpv_result_queue, result)
             /\ worker_io' = [worker_io EXCEPT !.put =
                                 Append(@, <<result.my_product_name, result.url>>)]
    /\ worker' = [worker EXCEPT !.state = "ready", !.task = NoTask]
    /\ UNCHANGED <<persist, inputs, side, pc, caches, product_prices, prog, futures,
                   lpv_url_queue, orch_lpv, psr_hist, timeouts, prev_run, run_io,
                   call_log>>

\* -------------------------------------------------------------- the flush
ToSheetVerification(df) ==
    [i \in 1..Len(df.rows) |->
        SheetRow(df.rows[i].MonNomProduit, df.rows[i].Concurrent,
                 df.rows[i].URLConcurrent)]

ToSheetProductsUrl(df) ==
    [i \in 1..Len(df.rows) |->
        SheetRow(df.rows[i].NomProduit, df.rows[i].CompetitorDomain,
                 df.rows[i].URLConcurrent)]

WriteKeepsOld(old, new, outcome) == old

\* update_sheet_from_dataframe: sheet.clear() then sheet.update(...).
\* outcome: "ok", "fail_before_clear" or "fail_after_clear".
update_sheet_from_dataframe(old, new, outcome) ==
    CASE outcome = "ok" -> new
      [] outcome = "fail_before_clear" -> old
      [] OTHER -> <<>>

WriteOutcomes == {"ok", "fail_before_clear", "fail_after_clear"}

SaveResetsFlagsFirst(gs, rem, outV, outU) ==
    LET doV == gs.verification_changed
        okV == ~doV \/ outV = "ok"
        doU == okV /\ gs.products_url_changed
        okU == ~doU \/ outU = "ok"
    IN  [GlobalStore |->
            [gs EXCEPT
                !.verification_changed = IF doV THEN FALSE ELSE @,
                !.products_url_changed = IF doU THEN FALSE ELSE @],
         remote |->
            [verification |->
                IF doV
                THEN update_sheet_from_dataframe(
                         rem.verification, ToSheetVerification(gs.verification_df), outV)
                ELSE rem.verification,
             products_url |->
                IF doU
                THEN update_sheet_from_dataframe(
                         rem.products_url, ToSheetProductsUrl(gs.products_url_df), outU)
                ELSE rem.products_url],
         written |->
            [verification |->
                IF ~doV THEN "none" ELSE IF okV THEN "ok" ELSE "failed",
             products_url |->
                IF ~doU THEN "none" ELSE IF okU THEN "ok" ELSE "failed"],
         raised |-> ~(okV /\ okU)]

\* save_sheets_to_google on GlobalStore gs: the verification sheet first; an
\* exception of the first write skips the second.
save_sheets_to_google(gs, rem, outV, outU) ==
    LET doV == gs.verification_changed
        okV == ~doV \/ outV = "ok"
        doU == okV /\ gs.products_url_changed
        okU == ~doU \/ outU = "ok"
    IN  [GlobalStore |->
            [gs EXCEPT
                !.verification_changed = IF doV /\ okV THEN FALSE ELSE @,
                !.products_url_changed = IF doU /\ okU THEN FALSE ELSE @],
         remote |->
            [verification |->
                IF doV
                THEN update_sheet_from_dataframe(
                         rem.verification, ToSheetVerification(gs.verification_df), outV)
                ELSE rem.verification,
             products_url |->
                IF doU
                THEN update_sheet_from_dataframe(
                         rem.products_url, ToSheetProductsUrl(gs.products_url_df), outU)
                ELSE rem.products_url],
         written |->
            [verification |->
                IF ~doV THEN "none" ELSE IF okV THEN "ok" ELSE "failed",
             products_url |->
                IF ~doU THEN "none" ELSE IF okU THEN "ok" ELSE "failed"],
         raised |-> ~(okV /\ okU)]

\* Etapes 7 to 9: copy the changed local DataFrames to GlobalStore, save the
\* dirty ones, display the results.
Flush ==
    /\ pc = "flush"
    /\ \E outV \in WriteOutcomes, outU \in WriteOutcomes :
         LET gs1 == [GlobalStore EXCEPT
                        !.verification_df =
                            IF verification_needs_global_update
                            THEN verification_df ELSE @,
                        !.verification_changed =
                            IF verification_needs_global_update THEN TRUE ELSE @,
                        !.products_url_df =
                            IF products_url_needs_global_update
                            THEN products_url_df ELSE @,
                        !.products_url_changed =
                            IF products_url_needs_global_update THEN TRUE ELSE @]
             saved == save_sheets_to_google(gs1, remote, outV, outU)
             copied == {c \in {"verification"} : verification_needs_global_update}
                         \cup {c \in {"products_url"} : products_url_needs_global_update}
         IN  IF gs1.verification_changed \/ gs1.products_url_changed
             THEN /\ GlobalStore' = saved.GlobalStore
                  /\ remote' = saved.remote
                  \* a failed save is logged and shown as a warning
                  /\ run_io' = [run_io EXCEPT !.copied = copied,
                                              !.written = saved.written,
                                              !.displayed = TRUE]
             ELSE /\ GlobalStore' = gs1
                  /\ UNCHANGED remote
                  /\ run_io' = [run_io EXCEPT !.copied = copied,
                                              !.displayed = TRUE]
    /\ pc' = "finally"
    /\ UNCHANGED <<inputs, side, caches, product_prices, prog, futures, queues,
                   orch_lpv, worker, psr_hist, timeouts, prev_run, worker_io,
                   call_log>>

\* The number of tasks the pipe under lpv_url_queue holds while nobody reads
\* it (scaled down from the 64 KiB of a pipe).
PipeCapacity == 2

\* lpv_url_queue.join_thread() returns: the feeder thread of the queue has
\* written every task and the sentinel put on it into the pipe.  What the worker
\* never read stays in the pipe, and the feeder waits for room in it.
join_thread == Len(lpv_url_queue) <= PipeCapacity

\* The finally clause: both queues are closed and their feeder threads joined,
\* a worker still alive is terminated; then the call returns, or the exception
\* of the fatal-error handler goes on to the caller.
Finally ==
    /\ pc = "finally"
    /\ join_thread
    /\ worker' = IF lpv_process # None /\ IsAlive
                 THEN terminate(worker) ELSE worker
    /\ pc' = "done"
    /\ run_io' = [run_io EXCEPT !.outcome =
                      IF run_io.fatal THEN "raised" ELSE "returned"]
    /\ UNCHANGED <<persist, inputs, side, caches, product_prices, prog, futures, queues,
                   orch_lpv, psr_hist, timeouts, prev_run, worker_io, call_log>>

\* ------------------------------------------------------------ a next call
HasReportRow(name, domain) ==
    \E k \in 1..Len(results) :
        results[k].MonNomProduit = name /\ results[k].Concurrent = domain

\* process_products is called again with the same inputs.
NextRun ==
    /\ pc = "done"
    /\ run < MaxRuns
    /\ run' = run + 1
    /\ pc' = "start"
    /\ prev_run' =
         [serper_success |->
             {pr \in Pairs :
                 /\ HasReportRow(pr[1], pr[2])
                 /\ \E i \in 1..Len(futures) :
                       /\ futures[i].my_product_name = pr[1]
                       /\ futures[i].domain = pr[2]
                       /\ futures[i].result.resolver_status = "URL From Serper"},
          products_url_flushed |->
             products_url_needs_global_update /\ ~GlobalStore.products_url_changed]
    /\ verification_df' = EmptyDF({})
    /\ products_url_df' = EmptyDF({})
    /\ verification_needs_global_update' = FALSE
    /\ products_url_needs_global_update' = FALSE
    /\ results' = <<>>
    /\ product_prices' = [n \in Names |-> NoPrice]
    /\ total_tasks' = 0
    /\ completed_final_tasks' = 0
    /\ futures' = <<>>
    /\ lpv_url_queue' = <<>>
    /\ lpv_result_queue' = <<>>
    /\ lpv_process' = None
    /\ lpv_tasks_submitted_count' = 0
    /\ collect_i' = 0
    /\ worker' = NewWorker
    /\ progress_calls' = <<>>
    /\ psr_calls' = [pr \in Pairs |-> <<>>]
    /\ last_psr' = NoPsr
    /\ timeouts' = 0
    /\ worker_io' = NoWorkerIo
    /\ run_io' = NoRunIo
    /\ UNCHANGED <<persist, catalog, competitors, side, call_log>>

\* --------------------------------------------- the cache operations alone
\* Longest sequence of direct calls that is followed.
MaxCalls == 3

W2 == <<"W", " ">>
CacheNames == {W1, W2}
CacheUrls == {"url_c", "url_s", None}

IndexedColumns(columns) == columns \cup {"_nom_norm", "_dom_norm", "IndexUnique"}

\* Local DataFrames a call may find: as process_products builds them, and
\* ones that lack required columns.
CacheUrlFrames ==
    { [cols |-> REQUIRED_COLUMNS_PRODUCTS_URL \cup {"IndexUnique"}, rows |-> <<>>],
      [cols |-> IndexedColumns(REQUIRED_COLUMNS_PRODUCTS_URL),
       rows |-> <<URow(W1, TAK, "url_c", IndexUnique(W1, TAK))>>],
      [cols |-> IndexedColumns(REQUIRED_COLUMNS_PRODUCTS_URL),
       rows |-> <<URow(W1, TAK, "", IndexUnique(W1, TAK))>>],
      [cols |-> {}, rows |-> <<>>],
      [cols |-> {"NomProduit", "CompetitorDomain"},
       rows |-> <<URow(W1, TAK, "", NaNIndex)>>] }

CacheVerificationFrames ==
    { [cols |-> REQUIRED_COLUMNS_VERIFICATION \cup {"IndexUnique"}, rows |-> <<>>],
      [cols |-> IndexedColumns(REQUIRED_COLUMNS_VERIFICATION),
       rows |-> <<VRow(W1, TAK, "url_v", IndexUnique(W1, TAK))>>],
      [cols |-> {"URLConcurrent"},
       rows |-> <<VRow(<<>>, <<>>, "url_v", NaNIndex)>>] }

CacheCall(op, product_name, domain, url, ret) ==
    [op |-> op, product_name |-> product_name, domain |-> domain, url |-> url,
     ret |-> ret]

InitCache ==
    /\ remote = [verification |-> <<>>, products_url |-> <<>>]
    /\ GlobalStore = [verification_df |-> EmptyDF({}),
                      products_url_df |-> EmptyDF({}),
                      verification_changed |-> FALSE,
                      products_url_changed |-> FALSE]
    /\ catalog = <<>>
    /\ competitors = <<>>
    /\ pc = "cache"
    /\ verification_df \in CacheVerificationFrames
    /\ products_url_df \in CacheUrlFrames
    /\ Fresh

CallSaveOrUpdateUrl ==
    /\ pc = "cache"
    /\ Len(call_log) < MaxCalls
    /\ \E product_name \in CacheNames, url \in CacheUrls :
         LET r == save_or_update_url(product_name, TAK, url, products_url_df)
         IN  /\ products_url_df' = r.arg
             /\ call_log' = Append(call_log,
                                   CacheCall("save_or_update_url", product_name,
                                             TAK, url, r.ret))
    /\ UNCHANGED <<persist, inputs, side, pc, verification_df,
                   verification_needs_global_update,
                   products_url_needs_global_update, results, product_prices,
                   prog, futures, queues, orch_lpv, worker, psr_hist, timeouts,
                   prev_run, run_io, worker_io>>

CallAddToManualVerification ==
    /\ pc = "cache"
    /\ Len(call_log) < MaxCalls
    /\ \E product_name \in CacheNames, url \in CacheUrls :
         LET r == add_to_manual_verification(product_name, TAK, verification_df, url)
         IN  /\ verification_df' = r.arg
             /\ call_log' = Append(call_log,
                                   CacheCall("add_to_manual_verification",
                                             product_name, TAK, url, r.ret))
    /\ UNCHANGED <<persist, inputs, side, pc, products_url_df,
                   verification_needs_global_update,
                   products_url_needs_global_update, results, product_prices,
                   prog, futures, queues, orch_lpv, worker, psr_hist, timeouts,
                   prev_run, run_io, worker_io>>

CallRemoveFromManualVerification ==
    /\ pc = "cache"
    /\ Len(call_log) < MaxCalls
    /\ \E product_name \in CacheNames :
         LET r == remove_from_manual_verification(product_name, TAK, verification_df)
         IN  /\ verification_df' = r.arg
             /\ call_log' = Append(call_log,
                                   CacheCall("remove_from_manual_verification",
                                             product_name, TAK, None, r.ret))
    /\ UNCHANGED <<persist, inputs, side, pc, products_url_df,
                   verification_needs_global_update,
                   products_url_needs_global_update, results, product_prices,
                   prog, futures, queues, orch_lpv, worker, psr_hist, timeouts,
                   prev_run, run_io, worker_io>>

\* --------------------------------------------------------- specifications
RunTask == \E i \in 1..Len(futures) : TaskRun(i)

HandleCompleted == \E i \in 1..Len(futures) : HandleFuture(i)

RunStep ==
    \/ StartRun
    \/ LivenessCheck
    \/ Submit
    \/ RunTask
    \/ HandleCompleted
    \/ PoolExit
    \/ CollectResult
    \/ CollectTimeout
    \/ Shutdown
    \/ JoinExited
    \/ JoinTimeout
    \/ Flush
    \/ Finally
    \/ WorkerInitOk
    \/ WorkerInitFail
    \/ WorkerGet
    \/ WorkerScrape

Next == RunStep

\* One call of process_products.
Spec == Init /\ [][Next]_vars

\* ------------------------------------------------- single calls of functions
\* Local DataFrames a pool task may be given: indexed as process_products
\* builds them, with one entry at most, spelled as the catalog spells the
\* product or differently; and ones that lack the URL column.
TaskVerificationFrames ==
    { [cols |-> REQUIRED_COLUMNS_VERIFICATION \cup {"IndexUnique"}, rows |-> <<>>],
      [cols |-> IndexedColumns(REQUIRED_COLUMNS_VERIFICATION),
       rows |-> <<VRow(W1, TAK, "url_v", IndexUnique(W1, TAK))>>],
      [cols |-> IndexedColumns(REQUIRED_COLUMNS_VERIFICATION),
       rows |-> <<VRow(W2, TAK, "url_v", IndexUnique(W2, TAK))>>],
      [cols |-> IndexedColumns(REQUIRED_COLUMNS_VERIFICATION),
       rows |-> <<VRow(W1, TAK, "", IndexUnique(W1, TAK))>>],
      [cols |-> IndexedColumns({"MonNomProduit", "Concurrent"}),
       rows |-> <<VRow(W1, TAK, "url_v", IndexUnique(W1, TAK))>>] }

TaskUrlFrames ==
    { [cols |-> REQUIRED_COLUMNS_PRODUCTS_URL \cup {"IndexUnique"}, rows |-> <<>>],
      [cols |-> IndexedColumns(REQUIRED_COLUMNS_PRODUCTS_URL),
       rows |-> <<URow(W1, TAK, "url_c", IndexUnique(W1, TAK))>>],
      [cols |-> IndexedColumns(REQUIRED_COLUMNS_PRODUCTS_URL),
       rows |-> <<URow(W2, TAK, "url_c", IndexUnique(W2, TAK))>>],
      [cols |-> IndexedColumns(REQUIRED_COLUMNS_PRODUCTS_URL),
       rows |-> <<URow(W1, TAK, "", IndexUnique(W1, TAK))>>],
      [cols |-> IndexedColumns({"NomProduit", "CompetitorDomain"}),
       rows |-> <<URow(W1, TAK, "url_c", IndexUnique(W1, TAK))>>] }

\* Prices calculate_price_difference is called with: None, 0, 0.01, 10.00,
\* 32.00, 33.00, 40.00, 50.00, 80.00, 100.00, -5.00 and a string that is no
\* number.
PriceArgs ==
    {NoPrice, <<0>>, <<1>>, <<1000>>, <<3200>>, <<3300>>, Price40, Price50,
     <<8000>>, <<10000>>, <<-500>>, NotANumber}

InitCalls ==
    /\ remote = [verification |-> <<>>, products_url |-> <<>>]
    /\ GlobalStore = [verification_df |-> EmptyDF({}),
                      products_url_df |-> EmptyDF({}),
                      verification_changed |-> FALSE,
                      products_url_changed |-> FALSE]
    /\ catalog = <<>>
    /\ competitors = <<>>
    /\ pc = "call"
    /\ verification_df \in TaskVerificationFrames
    /\ products_url_df \in TaskUrlFrames
    /\ Fresh

\* _worker_task is called once on the two DataFrames.
CallWorkerTask ==
    /\ pc = "call"
    /\ call_log = <<>>
    /\ \E my_product_name \in CacheNames, domain \in Domains,
          serper \in SerperOutcomes, extract \in ExtractOutcomes :
         call_log' =
            <<[op |-> "_worker_task", my_product_name |-> my_product_name,
               domain |-> domain, serper |-> serper, extract |-> extract,
               result |-> WorkerTask(my_product_name, domain, verification_df,
                                     products_url_df, serper, extract)]>>
    /\ UNCHANGED <<persist, inputs, side, pc, caches, product_prices, prog, futures,
                   queues, orch_lpv, worker, psr_hist, timeouts, prev_run,
                   run_io, worker_io>>

\* calculate_price_difference is called once.
CallCalculatePriceDifference ==
    /\ pc = "call"
    /\ call_log = <<>>
    /\ \E my_price \in PriceArgs, competitor_price \in PriceArgs :
         call_log' =
            <<[op |-> "calculate_price_difference", my_price |-> my_price,
               competitor_price |-> competitor_price,
               ret |-> calculate_price_difference(my_price, competitor_price)]>>
    /\ UNCHANGED <<persist, inputs, side, pc, caches, product_prices, prog, futures,
                   queues, orch_lpv, worker, psr_hist, timeouts, prev_run,
                   run_io, worker_io>>

NextCalls == CallWorkerTask \/ CallCalculatePriceDifference

\* One call of _worker_task or of calculate_price_difference.
SpecCalls == InitCalls /\ [][NextCalls]_vars

NextCache ==
    \/ CallSaveOrUpdateUrl
    \/ CallAddToManualVerification
    \/ CallRemoveFromManualVerification

\* Direct calls of the three cache operations on one pair of DataFrames.
SpecCache == InitCache /\ [][NextCache]_vars

InitRuns == InitWith(MaxPairsRuns)

NextRuns == RunStep \/ NextRun

\* Successive calls of process_products on the same inputs.
SpecRuns == InitRuns /\ [][NextRuns]_vars

\* Longest workload of a call in which a start-up fault or a fatal error is
\* followed.
MaxPairsFaults == 2

InitFaults == InitWith(MaxPairsFaults)

NextFaults == RunStep \/ StartFaulty \/ StartCsvMissingColumns \/ FatalError

\* One call of process_products in which a sheet may fail to load, the
\* worker process may fail to start, the catalog may lack a column, or the
\* submission may raise.
SpecFaults == InitFaults /\ [][NextFaults]_vars

HandleRaising == \E i \in 1..Len(futures) : HandleFutureRaising(i)

NextRaise == RunStep \/ HandleRaising

\* One call of process_products in which a cache operation may raise inside
\* process_single_result.
SpecRaise == InitFaults /\ [][NextRaise]_vars

\* Nothing but the part named by where is running.
InitPart(where) ==
    /\ remote = [verification |-> <<>>, products_url |-> <<>>]
    /\ GlobalStore = [verification_df |-> EmptyDF({}),
                      products_url_df |-> EmptyDF({}),
                      verification_changed |-> FALSE,
                      products_url_changed |-> FALSE]
    /\ catalog = <<>>
    /\ competitors = <<>>
    /\ pc = where
    /\ verification_df = EmptyDF({})
    /\ products_url_df = EmptyDF({})
    /\ Fresh

InitClient == InitPart("client")

NextClient ==
    \E t \in Callers :
        \/ ClientFirstCheck(t)
        \/ ClientAcquire(t)
        \/ ClientConstruct(t)
        \/ ClientRelease(t)
        \/ ClientReturn(t)

\* Threads that call get_gspread_client for the first time, concurrently.
SpecClient == InitClient /\ [][NextClient]_vars

InitApp == InitPart("app")

NextApp ==
    \E i \in Instances :
        \/ AcquireLock(i)
        \/ CreateGui(i)
        \/ LeaveMainloop(i)
        \/ ReleaseLock(i)
        \/ Relaunch(i)

\* Processes that run main of main.py.
SpecApp == InitApp /\ [][NextApp]_vars

\* A catalog of two priced products, all to be scraped by the worker.
InitLpv ==
    /\ remote \in InitialRemotes
    /\ GlobalStore = [verification_df |-> EmptyDF({}),
                      products_url_df |-> EmptyDF({}),
                      verification_changed |-> FALSE,
                      products_url_changed |-> FALSE]
    /\ catalog \in {<<CsvRow(W1, Price50), CsvRow(G1, Price40)>>,
                    <<CsvRow(G1, Price40), CsvRow(W1, Price50)>>}
    /\ competitors = <<LPV>>
    /\ pc = "start"
    /\ verification_df = EmptyDF({})
    /\ products_url_df = EmptyDF({})
    /\ Fresh

\* One call of process_products for two products on lepetitvapoteur.com.
SpecLpv == InitLpv /\ [][Next]_vars

\* ------------------------------------------------------------------ claims
PairOf(f) == <<f.my_product_name, f.domain>>

\* Number of submitted tasks of a pair (a catalog may repeat a product).
Submitted(pr) == Cardinality({i \in 1..Len(futures) : PairOf(futures[i]) = pr})

LastCompleted == progress_calls[Len(progress_calls)][1]
AnnouncedTotal == progress_calls[1][2]

\* C1: in every run that reaches its end, the last completed value passed to
\* the progress callback equals the total of the initial callback (0, total).
C1_LastCompletedEqualsTotal ==
    pc = "done" => LastCompleted = AnnouncedTotal

\* C2: for every pair submitted to the pool, process_single_result is
\* invoked exactly once during the run (once per submitted task of the pair).
C2_EveryPairCorrelatedOnce ==
    pc = "done" => \A pr \in Pairs : Len(psr_calls[pr]) = Submitted(pr)

\* C3: a pair with no cached URL that was resolved by search and scraped
\* successfully in one run, the end-of-run flush having succeeded, resolves
\* with 'URL From Cache' in the next run, without a call of the search.
C3_SearchResolvedPairCachedNextRun ==
    \A i \in 1..Len(futures) :
        ( /\ futures[i].state # "running"
          /\ PairOf(futures[i]) \in prev_run.serper_success
          /\ prev_run.products_url_flushed )
        => ( /\ futures[i].result.resolver_status = "URL From Cache"
             /\ ~futures[i].result.searched )

SameCall(a, b) ==
    a.op = b.op /\ a.product_name = b.product_name /\ a.domain = b.domain
      /\ a.url = b.url

\* C4: calling save_or_update_url twice in a row with the same
\* (product, domain, url) on the same collection returns changed = false
\* the second time, whether the pair was absent or present before.
C4_SecondUpsertUnchanged ==
    \A k \in 1..(Len(call_log) - 1) :
        ( /\ call_log[k].op = "save_or_update_url"
          /\ SameCall(call_log[k], call_log[k + 1]) )
        => call_log[k + 1].ret = FALSE

\* C5: after process_single_result has processed a successful result for a
\* pair that has a verification entry, the orchestrator's verification
\* collection holds no entry for that pair.
C5_SuccessRemovesVerificationEntry ==
    (last_psr.called /\ last_psr.success /\ last_psr.had_verification)
    => ~HasVerificationEntry(verification_df, last_psr.my_product_name,
                             last_psr.domain)

\* C6: after process_single_result has processed a failed result, with a
\* status other than 'Verification No URL', for a pair that has no
\* verification entry, the orchestrator's verification collection holds an
\* entry for that pair carrying the URL discovered so far.
C6_FailureAddsVerificationEntry ==
    ( /\ last_psr.called
      /\ ~last_psr.success
      /\ last_psr.status # "Verification No URL"
      /\ ~last_psr.had_verification )
    => \E k \in 1..Len(verification_df.rows) :
          /\ verification_df.rows[k].MonNomProduit = last_psr.my_product_name
          /\ verification_df.rows[k].Concurrent = last_psr.domain
          /\ verification_df.rows[k].URLConcurrent = StrOrEmpty(last_psr.url)

\* C7: when a wait on the result queue times out, the completed count
\* advances by one and the affected pair is passed to process_single_result
\* and ends as a verification entry.
C7_TimeoutCorrelatesPair ==
    [][ (timeouts' = timeouts + 1)
        => ( /\ completed_final_tasks' = completed_final_tasks + 1
             /\ \E pr \in Pairs :
                   /\ Len(psr_calls'[pr]) = Len(psr_calls[pr]) + 1
                   /\ HasVerificationEntry(verification_df', pr[1], pr[2]) ) ]_vars

AllButLast(q) == SubSeq(q, 1, Len(q) - 1)

\* C8: for every well-formed task the running worker dequeues, it puts
\* exactly one result carrying that task's product name and url on the
\* result queue before it dequeues the next message, whether the extraction
\* succeeds, returns an error status or raises.
C8_OneResultPerTask ==
    /\ worker.state \in {"ready", "exited"} => worker_io.put = worker_io.taken
    /\ worker.state = "busy"
          => /\ worker_io.taken # <<>>
             /\ worker_io.put = AllButLast(worker_io.taken)

C8_Witness ==
    /\ worker.state = "ready"
    /\ Len(worker_io.put) = 2
    /\ \E k \in 1..Len(lpv_result_queue) :
          lpv_result_queue[k].status = "WorkerLoopError"
    /\ \E k \in 1..Len(lpv_result_queue) : lpv_result_queue[k].status = "200"

LaunchFailed == worker.state = "exited" /\ worker.driver = "none"

\* C9: if the worker process exits because the browser engine failed to
\* launch, at any moment, no automation-domain pair is resolved by a
\* result-queue timeout.
C9_NoTimeoutAfterLaunchFailure ==
    LaunchFailed => timeouts = 0

\* The startup liveness check found the worker not alive.
FoundDeadAtStartup ==
    /\ InList(LPV, competitors)
    /\ pc \notin {"start", "worker_check"}
    /\ lpv_process = None

LpvHandled == {i \in 1..Len(futures) :
                 futures[i].domain = LPV /\ futures[i].state = "handled"}

\* C10 as stated: when the worker is found not alive at the startup check,
\* every automation-domain pair ends with the outcome 'No URL To Scrape' and
\* is not forwarded to the task queue.
C10_DeadWorkerPairsNoUrlToScrape ==
    FoundDeadAtStartup
    => /\ lpv_tasks_submitted_count = 0
       /\ \A i \in LpvHandled :
             \A k \in 1..Len(psr_calls[PairOf(futures[i])]) :
                 psr_calls[PairOf(futures[i])][k] = "No URL To Scrape"

\* C10 amended: when the worker is found not alive at the startup check, no
\* automation-domain pair is forwarded to the task queue or waited for; a
\* pair whose URL was resolved is passed to process_single_result with the
\* outcome 'LPV Worker Not Ready', every other one with the status its
\* resolver ended with.
C10_DeadWorkerPairsNotForwarded ==
    FoundDeadAtStartup
    => /\ lpv_tasks_submitted_count = 0
       /\ lpv_url_queue = <<>>
       /\ timeouts = 0
       /\ \A pr \in Pairs :
             pr[2] = LPV
             => /\ Len(psr_calls[pr]) =
                     Cardinality({i \in LpvHandled : PairOf(futures[i]) = pr})
                /\ \A k \in 1..Len(psr_calls[pr]) :
                      psr_calls[pr][k] \in
                         {"LPV Worker Not Ready", "Serper Not Found",
                          "Serper API Error", "Verification No URL"}
       /\ \A i \in LpvHandled :
             futures[i].result.status = "Requires LPV"
             => \E k \in 1..Len(psr_calls[PairOf(futures[i])]) :
                   psr_calls[PairOf(futures[i])][k] = "LPV Worker Not Ready"

C10_Witness ==
    /\ FoundDeadAtStartup
    /\ pc = "done"
    /\ \E i \in LpvHandled : futures[i].result.status = "Requires LPV"
    /\ \E i \in LpvHandled : futures[i].result.status = "Serper Not Found"

\* C11: whenever the worker process ends after its browser session was
\* created (sentinel, loop error or termination from outside), the session's
\* quit has been executed.
C11_SessionQuitBeforeExit ==
    (worker.state \in {"exited", "terminated"} /\ worker.driver # "none")
    => worker.driver = "quit"

\* C12: at the moment process_products returns or raises, no worker process
\* started by that run is still alive.
C12_NoWorkerAliveAtReturn ==
    pc = "done" => ~IsAlive

C12_Witness ==
    /\ pc = "done"
    /\ run_io.outcome = "raised"
    /\ worker.state = "terminated"

Handled == {i \in 1..Len(futures) : futures[i].state = "handled"}

\* C13: each submitted pair advances the completed count exactly once: a
\* forwarded pair is not counted when it is forwarded and is counted once at
\* collection, every other pair once when its pool task completes; after the
\* initial (0, total) call the callback is invoked once per counted pair.
C13_EachPairCountedOnce ==
    pc # "start"
    => /\ completed_final_tasks =
             (Cardinality(Handled) - lpv_tasks_submitted_count) + collect_i
       /\ Len(progress_calls) = 1 + completed_final_tasks
       /\ \A k \in 1..Len(progress_calls) : progress_calls[k][1] = k - 1
       /\ pc = "done" => completed_final_tasks = Len(futures)

C13_Witness ==
    /\ pc = "done"
    /\ Len(futures) >= 2
    /\ lpv_tasks_submitted_count >= 1
    /\ lpv_tasks_submitted_count < Len(futures)
    /\ timeouts >= 1
    /\ completed_final_tasks = Len(futures)

\* C14: in a run in which no cache operation changes the content of a
\* collection, that collection is neither copied back to shared state nor
\* written to the remote store.
C14_UnchangedCollectionNotWritten ==
    [][ (pc = "flush" /\ pc' = "finally")
        => /\ ToSheetVerification(verification_df) =
                 ToSheetVerification(GlobalStore.verification_df)
              => /\ "verification" \notin run_io'.copied
                 /\ run_io'.written.verification = "none"
           /\ ToSheetProductsUrl(products_url_df) =
                 ToSheetProductsUrl(GlobalStore.products_url_df)
              => /\ "products_url" \notin run_io'.copied
                 /\ run_io'.written.products_url = "none" ]_vars

\* C15: after a flush in which the remote write of a collection completed
\* without error, the remote rows equal the rows of the orchestrator's local
\* collection restricted to the required columns and those of the
\* shared-state collection, and the dirty flag is cleared.
C15_FlushedCollectionsConverge ==
    pc \in {"finally", "done"}
    => /\ run_io.written.verification = "ok"
          => /\ remote.verification = ToSheetVerification(verification_df)
             /\ remote.verification = ToSheetVerification(GlobalStore.verification_df)
             /\ ~GlobalStore.verification_changed
       /\ run_io.written.products_url = "ok"
          => /\ remote.products_url = ToSheetProductsUrl(products_url_df)
             /\ remote.products_url = ToSheetProductsUrl(GlobalStore.products_url_df)
             /\ ~GlobalStore.products_url_changed

C15_Witness ==
    /\ pc = "done"
    /\ run_io.written.products_url = "ok"
    /\ \E k \in 1..Len(remote.products_url) : remote.products_url[k].url = "url_v"

\* C16: mutations made to the shared-state collections in a run whose remote
\* write failed are still present in the collections the next run works on.
C16_FailedWriteMutationsKept ==
    [][ (pc = "start" /\ run > 1 /\ pc' # "start")
        => /\ GlobalStore.verification_changed
              => ToSheetVerification(verification_df') =
                    ToSheetVerification(GlobalStore.verification_df)
           /\ GlobalStore.products_url_changed
              => ToSheetProductsUrl(products_url_df') =
                    ToSheetProductsUrl(GlobalStore.products_url_df) ]_vars

\* C17: if the remote write fails during the end-of-run flush,
\* process_products does not raise, the final report is still emitted and
\* the dirty flag of the collection that failed to write stays set.
C17_FailedWriteKeepsFlag ==
    pc \in {"finally", "done"}
    => /\ run_io.written.verification = "failed"
          => /\ GlobalStore.verification_changed
             /\ run_io.displayed
             /\ ~run_io.fatal
             /\ pc = "done" => run_io.outcome = "returned"
       /\ run_io.written.products_url = "failed"
          => /\ GlobalStore.products_url_changed
             /\ run_io.displayed
             /\ ~run_io.fatal
             /\ pc = "done" => run_io.outcome = "returned"

C17_Witness ==
    /\ pc = "done"
    /\ run_io.written.products_url = "failed"
    /\ GlobalStore.products_url_changed
    /\ run_io.outcome = "returned"

\* C18: if loading either cache collection from the remote store fails,
\* process_products aborts with a fatal error before any task is submitted
\* and without writing anything to the remote store.
C18_LoadFailureAborts ==
    run_io.load_failed
    => /\ futures = <<>>
       /\ run_io.written.verification = "none"
       /\ run_io.written.products_url = "none"
       /\ pc = "done" => run_io.outcome = "raised"

\* C19: if the input catalog lacks the product-name or the price column,
\* process_products surfaces a fatal error to its caller.
C19_MissingColumnsRaise ==
    (run_io.csv_missing /\ pc = "done") => run_io.outcome = "raised"

\* C20: the total passed to the progress callback equals the number of tasks
\* actually submitted.
C20_TotalEqualsSubmitted ==
    pc \in {"pool", "collect", "join", "flush", "finally", "done"}
    => total_tasks = Len(futures)

Rows50Against40 ==
    {k \in 1..Len(results) : /\ results[k].MonPrix = Price50
                             /\ results[k].PrixConcurrent = Price40
                             /\ results[k].NomProduitConcurrent = "Widget Pro"}

\* C22, as stated: for a product priced 50.00 whose competitor result is
\* ("Widget Pro", 40.0, 200), the report row has EstMoinsCher true and a
\* price difference of -20.0.
C22_RowCheaperMinus20 ==
    \A k \in Rows50Against40 :
        /\ results[k].EstMoinsCher
        /\ results[k].DifferencePrix = PriceDiff("float", -2000)

\* C22, amended: for a product priced 50.00 whose competitor result is
\* ("Widget Pro", 40.0, 200), the report row has EstMoinsCher true and a
\* price difference of 25.0, which is (50 - 40) / 40 * 100.
C22_RowCheaperPlus25 ==
    \A k \in Rows50Against40 :
        /\ results[k].EstMoinsCher
        /\ results[k].DifferencePrix = PriceDiff("float", 2500)

C22_Witness == Rows50Against40 # {}

\* The call of calculate_price_difference that was made, if one was.
PriceCalls ==
    {k \in 1..Len(call_log) : call_log[k].op = "calculate_price_difference"}

\* C23: for numbers, calculate_price_difference(my, comp) is
\* (my - comp) / comp * 100 rounded to two decimals when comp > 0, so that
\* (100, 80) gives 25.0 and (80, 100) gives -20.0; it is +infinity when
\* comp = 0 and my > 0, and 0.0 when both are 0.
C23_PriceDifferenceValues ==
    \A k \in PriceCalls :
        LET c == call_log[k]
            my == c.my_price[1]
            comp == c.competitor_price[1]
            err == c.ret.v * comp - (my - comp) * 10000
        IN  (Len(c.my_price) = 1 /\ Len(c.competitor_price) = 1)
            => /\ comp > 0
                  => /\ c.ret.kind = "float"
                     /\ 2 * err <= comp
                     /\ 2 * err >= 0 - comp
               /\ (my = 10000 /\ comp = 8000) => c.ret = PriceDiff("float", 2500)
               /\ (my = 8000 /\ comp = 10000) => c.ret = PriceDiff("float", -2000)
               /\ (comp = 0 /\ my > 0) => c.ret = PriceDiff("inf", 0)
               /\ (comp = 0 /\ my = 0) => c.ret = PriceDiff("float", 0)

\* calculate_price_difference(33.00, 32.00) was called: 3.125 is rounded
\* to 3.12.
C23_Witness ==
    \E k \in PriceCalls :
        /\ call_log[k].my_price = <<3300>>
        /\ call_log[k].competitor_price = <<3200>>
        /\ call_log[k].ret = PriceDiff("float", 312)

\* C24, as stated: calculate_price_difference returns "N/A" whenever the
\* competitor price is negative or either price is not a number.
C24_NotNumericGivesNA ==
    \A k \in PriceCalls :
        LET c == call_log[k]
        IN  (\/ Len(c.my_price) # 1
             \/ Len(c.competitor_price) # 1
             \/ c.competitor_price[1] < 0)
            => c.ret.kind = "N/A"

\* C24, amended: calculate_price_difference returns "N/A" when a price is
\* None, and when both are numbers and the competitor price is negative; it
\* returns "Erreur Type" when neither is None and one of them is not a
\* number.
C24_NoneGivesNAOtherGivesErreurType ==
    \A k \in PriceCalls :
        LET c == call_log[k]
        IN  /\ (c.my_price = NoPrice \/ c.competitor_price = NoPrice)
               => c.ret.kind = "N/A"
            /\ (/\ c.my_price # NoPrice
                /\ c.competitor_price # NoPrice
                /\ (c.my_price = NotANumber \/ c.competitor_price = NotANumber))
               => c.ret.kind = "Erreur Type"
            /\ (/\ Len(c.my_price) = 1
                /\ Len(c.competitor_price) = 1
                /\ c.competitor_price[1] < 0)
               => c.ret.kind = "N/A"

\* It was called with a number and a value that is no number.
C24_Witness ==
    \E k \in PriceCalls :
        /\ call_log[k].my_price = Price50
        /\ call_log[k].competitor_price = NotANumber
        /\ call_log[k].ret.kind = "Erreur Type"

\* C25: every cache operation identifies a pair by the same normalized key:
\* two spellings of a pair that differ in case or surrounding whitespace
\* only get the same answer from the lookup, from save_or_update_url, from
\* add_to_manual_verification and from remove_from_manual_verification.
C25_SpellingsAddressSameEntry ==
    pc = "cache"
    => \A n1 \in CacheNames, n2 \in CacheNames, url \in CacheUrls :
          IndexUnique(n1, TAK) = IndexUnique(n2, TAK)
          => /\ LocalLookup(IndexUnique(n1, TAK), verification_df, products_url_df)
                  .status
                = LocalLookup(IndexUnique(n2, TAK), verification_df, products_url_df)
                  .status
             /\ save_or_update_url(n1, TAK, url, products_url_df).ret
                = save_or_update_url(n2, TAK, url, products_url_df).ret
             /\ add_to_manual_verification(n1, TAK, verification_df, url).ret
                = add_to_manual_verification(n2, TAK, verification_df, url).ret
             /\ remove_from_manual_verification(n1, TAK, verification_df).ret
                = remove_from_manual_verification(n2, TAK, verification_df).ret

\* No two rows of df for one (NomProduit, CompetitorDomain).
OneEntryPerPair(df) ==
    \A i \in 1..Len(df.rows), j \in 1..Len(df.rows) :
        (/\ df.rows[i].NomProduit = df.rows[j].NomProduit
         /\ df.rows[i].CompetitorDomain = df.rows[j].CompetitorDomain)
        => i = j

\* C26: starting from a URL cache with at most one entry per (product,
\* domain), after any sequence of save_or_update_url calls the cache holds
\* at most one entry per (product, domain), and so does the DataFrame a
\* further call computes.
C26_OneEntryPerPair ==
    pc = "cache"
    => /\ OneEntryPerPair(products_url_df)
       /\ \A name \in CacheNames, url \in CacheUrls :
             /\ OneEntryPerPair(
                    save_or_update_url(name, TAK, url, products_url_df).arg)
             /\ OneEntryPerPair(
                    save_or_update_url(name, TAK, url, products_url_df).local)

\* Two calls of save_or_update_url for the pair of the cache's entry changed
\* its URL twice.
C26_Witness ==
    /\ pc = "cache"
    /\ Len(call_log) = 2
    /\ \A k \in 1..2 : /\ call_log[k].op = "save_or_update_url"
                       /\ call_log[k].product_name = W1
                       /\ call_log[k].ret
    /\ Len(products_url_df.rows) = 1
    /\ products_url_df.rows[1].NomProduit = W1
    /\ products_url_df.rows[1].URLConcurrent = "url_s"

\* C27: a flush of a collection to its sheet is atomic: after the flush,
\* whatever the write did, the sheet holds its previous content or the
\* complete new content.
C27_FlushIsAtomic ==
    [][ (pc = "flush" /\ pc' # "flush")
        => /\ remote'.verification
                \in {remote.verification,
                     ToSheetVerification(GlobalStore'.verification_df)}
           /\ remote'.products_url
                \in {remote.products_url,
                     ToSheetProductsUrl(GlobalStore'.products_url_df)} ]_vars

\* The call of _worker_task that was made, if one was.
TaskCalls == {k \in 1..Len(call_log) : call_log[k].op = "_worker_task"}

\* The URL the collection holds for the key, None if it has no entry for it
\* or no URL column.
EntryUrl(df, idx) ==
    IF \E i \in 1..Len(df.rows) : df.rows[i].IndexUnique = idx
    THEN IF "URLConcurrent" \in df.cols
         THEN df.rows[FirstOf({i \in 1..Len(df.rows) :
                                  df.rows[i].IndexUnique = idx})].URLConcurrent
         ELSE None
    ELSE None

HasEntry(df, idx) == \E i \in 1..Len(df.rows) : df.rows[i].IndexUnique = idx

\* The pair is in the verification queue without a URL.
Parked(df, idx) ==
    /\ HasEntry(df, idx)
    /\ "URLConcurrent" \in df.cols
    /\ EntryUrl(df, idx) \in {None, "", " "}

NonEmptyUrl(u) == u \notin {None, "", " "}

\* C28: for any content of the two collections, each holding one entry at
\* most for a pair, _worker_task resolves the URL by first match: the URL of
\* the pair's verification entry if it is not empty, even when the URL cache
\* holds another URL for the pair; the URL of the pair's URL-cache entry if
\* it is not empty and the pair has no verification entry; else, unless the
\* pair is parked in the verification queue without URL, the search.
C28_LookupOrder ==
    \A k \in TaskCalls :
        LET c == call_log[k]
            idx == IndexUnique(c.my_product_name, c.domain)
            vUrl == EntryUrl(verification_df, idx)
            uUrl == EntryUrl(products_url_df, idx)
            fromV == NonEmptyUrl(vUrl)
            fromU == ~HasEntry(verification_df, idx) /\ NonEmptyUrl(uUrl)
        IN  /\ fromV
               => /\ c.result.resolver_status = "URL From Verification"
                  /\ c.result.url = vUrl
                  /\ ~c.result.searched
            /\ (~fromV /\ fromU)
               => /\ c.result.resolver_status = "URL From Cache"
                  /\ c.result.url = uUrl
                  /\ ~c.result.searched
            /\ (~fromV /\ ~fromU /\ ~Parked(verification_df, idx))
               => /\ c.result.searched
                  /\ c.result.resolver_status
                        \in {"URL From Serper", "Serper Not Found",
                             "Serper API Error"}
                  /\ c.result.url = IF c.serper = "url_s" THEN "url_s" ELSE None

\* The verification queue and the URL cache hold different URLs for the
\* pair, and the task took the one of the verification queue.
C28_Witness ==
    \E k \in TaskCalls :
        LET idx == IndexUnique(call_log[k].my_product_name, call_log[k].domain)
        IN  /\ EntryUrl(verification_df, idx) = "url_v"
            /\ EntryUrl(products_url_df, idx) = "url_c"
            /\ call_log[k].result.url = "url_v"
            /\ call_log[k].result.resolver_status = "URL From Verification"

\* C29: for a pair that is in the verification queue without a URL, the pool
\* task ends with the status 'Verification No URL' and calls neither the
\* search nor an extractor; processing its result changes no cache
\* collection and appends no report row.
C29_ParkedPairIsLeftAlone ==
    /\ \A i \in 1..Len(futures) :
          (/\ futures[i].state # "running"
           /\ Parked(verification_df,
                     IndexUnique(futures[i].my_product_name, futures[i].domain)))
          => /\ futures[i].result.status = "Verification No URL"
             /\ ~futures[i].result.searched
             /\ ~futures[i].result.extracted
    /\ (last_psr.called /\ last_psr.status = "Verification No URL")
       => /\ ~last_psr.success
          /\ ~last_psr.changed

\* The result of a parked pair was processed.
C29_Witness ==
    /\ last_psr.called
    /\ last_psr.status = "Verification No URL"
    /\ \E i \in 1..Len(futures) :
          /\ futures[i].state = "handled"
          /\ futures[i].my_product_name = last_psr.my_product_name
          /\ futures[i].domain = last_psr.domain
          /\ Parked(verification_df,
                    IndexUnique(futures[i].my_product_name, futures[i].domain))

\* C30: when the local lookup of a pool task raises, on a collection that
\* lacks its URL column, the task returns a result whose status is
\* 'LocalLookupError'.
C30_LookupErrorIsTerminalStatus ==
    \A k \in TaskCalls :
        LET c == call_log[k]
        IN  LocalLookup(IndexUnique(c.my_product_name, c.domain),
                        verification_df, products_url_df).status
              = "LocalLookupError"
            => c.result.status = "LocalLookupError"

\* Pool tasks of the automation-required domain that have returned.
LpvReturned ==
    {i \in 1..Len(futures) : futures[i].domain = LPV /\ futures[i].state # "running"}

\* C31: for a pair of the automation-required domain the pool task never
\* calls extract_product_info; when a URL was resolved it returns the status
\* 'Requires LPV' with that URL.
C31_LpvNeverScrapedInline ==
    \A i \in LpvReturned :
        /\ ~futures[i].result.extracted
        /\ futures[i].result.resolver_status
              \in {"URL From Verification", "URL From Cache", "URL From Serper"}
           => /\ futures[i].result.status = "Requires LPV"
              /\ futures[i].result.url \in {"url_v", "url_c", "url_s"}

\* A pair of the automation-required domain got its URL from the URL cache.
C31_Witness ==
    \E i \in LpvReturned :
        /\ futures[i].result.resolver_status = "URL From Cache"
        /\ futures[i].result.url = "url_c"
        /\ futures[i].result.status = "Requires LPV"

\* The tasks put on lpv_url_queue so far, in the order they were put: those
\* the worker has taken, then those still queued.
Forwarded ==
    LET queued == SelectSeq(lpv_url_queue, LAMBDA t : t.kind = "task")
    IN  worker_io.taken
        \o [k \in 1..Len(queued) |-> <<queued[k].my_product_name, queued[k].url>>]

\* C32: as long as no wait on the result queue has timed out, the k-th
\* result the orchestrator collects is the one of the k-th task it forwarded
\* to the worker.
C32_CollectedInForwardedOrder ==
    [][ (/\ pc = "collect"
         /\ timeouts' = 0
         /\ collect_i' = collect_i + 1)
        => /\ lpv_result_queue # <<>>
           /\ collect_i' <= Len(Forwarded)
           /\ <<Head(lpv_result_queue).my_product_name, Head(lpv_result_queue).url>>
                = Forwarded[collect_i'] ]_vars

\* The results of two different tasks were collected, without a timeout.
C32_Witness ==
    /\ pc = "collect"
    /\ collect_i = 2
    /\ timeouts = 0
    /\ Len(worker_io.taken) = 2
    /\ worker_io.taken[1] # worker_io.taken[2]
    /\ worker_io.put = worker_io.taken

\* Pool tasks of product n that returned 'Requires LPV' and were handled.
ToForward(n) ==
    {i \in 1..Len(futures) : /\ futures[i].my_product_name = n
                             /\ futures[i].state = "handled"
                             /\ futures[i].result.status = "Requires LPV"}

\* Places of Forwarded that hold a task of product n.
ForwardedOf(n) == {k \in 1..Len(Forwarded) : Forwarded[k][1] = n}

\* C33: within one run, for each submitted pair the search is called at
\* most once and never after an extraction, an extractor is invoked at most
\* once, and the pair is forwarded to the worker at most once: the worker
\* takes each forwarded task once and puts one result for it, and nothing is
\* sent again after a failure or a timeout.
C33_SingleAttempt ==
    /\ \A n \in Names : Cardinality(ForwardedOf(n)) <= Cardinality(ToForward(n))
    /\ Len(Forwarded) = lpv_tasks_submitted_count
    /\ Len(worker_io.put) <= Len(worker_io.taken)
    /\ worker_io.put = SubSeq(worker_io.taken, 1, Len(worker_io.put))
    /\ Len(worker_io.taken) - Len(worker_io.put)
         = IF worker.task = NoTask THEN 0 ELSE 1
    /\ \A i \in 1..Len(futures) :
          futures[i].state # "running"
          => /\ futures[i].result.searched
                => futures[i].result.resolver_status
                     \in {"URL From Serper", "Serper Not Found", "Serper API Error"}
             /\ futures[i].result.extracted
                => futures[i].result.url \in {"url_v", "url_c", "url_s"}
    /\ timeouts > 0 => pc \notin {"start", "worker_check", "submit", "pool"}

\* A run ended in which an extraction failed and a wait for a forwarded
\* task timed out.
C33_Witness ==
    /\ pc = "done"
    /\ timeouts > 0
    /\ lpv_tasks_submitted_count > 0
    /\ \E i \in 1..Len(futures) :
          futures[i].result.extracted /\ futures[i].result.status = "404"

\* C34: under any interleaving of concurrent first calls of
\* get_gspread_client, at most one client is constructed, and every caller
\* that returns gets that client.
C34_ClientConstructedOnce ==
    pc = "client"
    => /\ constructed <= 1
       /\ \A t \in Callers :
             callers[t].pc = "done"
             => /\ callers[t].got # NoClient
                /\ callers[t].got = GSPREAD_CLIENT
                /\ \A u \in Callers :
                      callers[u].pc = "done" => callers[u].got = callers[t].got

\* A thread that saw no client at the first check holds the lock after
\* another one constructed the client, and a third one has returned.
C34_Witness ==
    /\ pc = "client"
    /\ GSPREAD_CLIENT # NoClient
    /\ \E t \in Callers, u \in Callers :
          /\ callers[t].pc = "locked"
          /\ callers[u].pc = "done"

\* Instances past acquire_lock with the lock, not yet through release_lock.
Holders == {i \in Instances : instances[i].pc \in {"locked", "gui", "finally"}}

\* C40: at most one instance is past acquire_lock at any time; an instance
\* started while another holds the lock file exits without creating the
\* GUI; the holder has released the lock when main ends, after a window
\* close as after an exception.
C40_SingleInstance ==
    pc = "app"
    => /\ Cardinality(Holders) <= 1
       /\ \A i \in Holders : lock_file = i
       /\ \A i \in Instances :
             /\ instances[i].pc \in {"refused", "start"} => ~instances[i].gui
             /\ instances[i].gui => instances[i].pc \in {"gui", "finally", "exited"}
             /\ instances[i].pc = "exited" => lock_file # i
       /\ Holders = {} => lock_file = NoInstance

\* One instance was refused while another showed its GUI, and a third one
\* has ended and released the lock before.
C40_Witness ==
    /\ pc = "app"
    /\ \E i \in Instances, j \in Instances, k \in Instances :
          /\ instances[i].pc = "gui"
          /\ instances[j].pc = "refused"
          /\ instances[k].pc = "exited"
          /\ instances[k].gui

\* C35: during a run only the orchestrator writes to the two cache
\* collections, when it loads them and through process_single_result; a
\* step of a pool task or of the worker leaves them as they are.
C35_OnlyOrchestratorWrites ==
    [][ (verification_df' # verification_df \/ products_url_df' # products_url_df)
        => (pc = "start" \/ psr_calls' # psr_calls) ]_vars

\* process_single_result has changed the URL cache while a pool task was
\* still running and the worker was alive.
C35_Witness ==
    /\ pc = "pool"
    /\ last_psr.called
    /\ products_url_df # IndexProductsUrl(GlobalStore.products_url_df)
    /\ \E i \in 1..Len(futures) : futures[i].state = "running"
    /\ IsAlive

\* C36: process_products always terminates when every pool task terminates,
\* whatever the worker does: while the call has not ended, one more step of it
\* (or of a task or of the worker) is possible.
C36_NeverBlocked == pc # "done" => ENABLED Next

\* C37: in every state of a run the completed count is at most the total
\* announced by the initial progress callback, and each progress callback
\* carries the completed value of the callback before it plus exactly 1.
C37_CompletedWithinTotal ==
    Len(progress_calls) >= 1
    => /\ progress_calls[1][1] = 0
       /\ completed_final_tasks <= AnnouncedTotal
       /\ \A k \in 2..Len(progress_calls) :
             /\ progress_calls[k][1] = progress_calls[k - 1][1] + 1
             /\ progress_calls[k][1] <= AnnouncedTotal
             /\ progress_calls[k][2] = AnnouncedTotal

\* A run ends with the completed count at the announced total, reached by
\* callbacks of the pool loop and of the collection loop.
C37_Witness ==
    /\ pc = "done"
    /\ Len(progress_calls) >= 3
    /\ LastCompleted = AnnouncedTotal
    /\ collect_i >= 1
    /\ Len(competitors) = 2

\* The sheet holds an entry of the pair.
SheetHolds(rows, product, domain) ==
    \E j \in 1..Len(rows) : rows[j].product = product /\ rows[j].domain = domain

\* The run appended a report row for the pair (a success).
Succeeded(product, domain) ==
    \E j \in 1..Len(results) :
        results[j].MonNomProduit = product /\ results[j].Concurrent = domain

\* C38: a flush never replaces a sheet by a collection that lacks an entry
\* the sheet held before the run, other than a verification entry of a pair
\* the run succeeded on; also when the load of the sheet failed at the start.
C38_FlushKeepsRemoteEntries ==
    [][ (pc = "flush" /\ pc' = "finally")
        => /\ run_io'.written.verification = "ok"
              => \A k \in 1..Len(remote.verification) :
                    \/ SheetHolds(remote'.verification,
                                  remote.verification[k].product,
                                  remote.verification[k].domain)
                    \/ Succeeded(remote.verification[k].product,
                                 remote.verification[k].domain)
           /\ run_io'.written.products_url = "ok"
              => \A k \in 1..Len(remote.products_url) :
                    SheetHolds(remote'.products_url,
                               remote.products_url[k].product,
                               remote.products_url[k].domain) ]_vars

====
